---------------------------- MODULE Spec2Model ----------------------------
(***************************************************************************)
(* The RISC-V simulator core of src/Phase3/simulator_core.py               *)
(* (class Instruction, class RISCVSimulator) and the two-pass assembler of *)
(* src/Src/assembler.py as state machines: Spec is the simulator on the    *)
(* files it may be given, AsmSpec is main of the assembler on a source     *)
(* file, followed by the simulator on the file main wrote.                 *)
(*                                                                         *)
(* Python integers are unbounded while TLC's are 32-bit, so a Python int v *)
(* is kept as the record [hi, w1, w0] with                                 *)
(*      v = hi * 2^32 + w1 * 2^16 + w0,   w1, w0 \in 0..65535, hi \in Int  *)
(* (hi = 0 exactly when v is an unsigned 32-bit word; hi = -1 and          *)
(* w1 >= 32768 for a negative value that fits 32 signed bits).  A 32-bit   *)
(* instruction word is kept as the four little-endian bytes memory holds.  *)
(* The bytearray is kept as its length and its non-zero bytes.             *)
(***************************************************************************)
EXTENDS Integers, Sequences, FiniteSets, TLC

VARIABLES pc, registers, memory, steps, last,
          lines, phase, line_num, symbol_table, location_counter,
          output_bytes, output_file, listing,
          running, pending

\* the simulator, the number of steps since the last load or reset, and the
\* record of the last call
simvars == <<pc, registers, memory, steps, last>>

\* the assembler: the source lines, where main is (in first_pass, in
\* second_pass, assembled, written, error), the line the running pass is
\* at, the locals of the passes, the output file, and the listing: the
\* location counter each pass held at each line, the address at which the
\* bytes of each line are emitted, and the exception that ended the run
asmvars == <<lines, phase, line_num, symbol_table, location_counter,
             output_bytes, output_file, listing>>

\* the GUI: SimulatorGUI.running, and the number of run_loop callbacks that
\* master.after has scheduled and Tk has not called yet
guivars == <<running, pending>>

vars == <<pc, registers, memory, steps, last,
          lines, phase, line_num, symbol_table, location_counter,
          output_bytes, output_file, listing,
          running, pending>>

---------------------------------------------------------------------------
(* Program constants                                                       *)

\* RISCVSimulator.__init__(mem_size=64 * 1024)
mem_size == 65536

\* the load address and the reset value of pc, 0x1000
LOAD_BASE == 4096

\* Model bound: run_single_step is called at most MaxSteps times after a
\* load or a reset (programs may loop for ever over ever larger integers).
MaxSteps == 12

\* Model bound: run_toggle starts no further run once MaxPending callbacks
\* of run_loop are scheduled.
MaxPending == 3

---------------------------------------------------------------------------
(* Python integers                                                         *)

H == 256 * 256

\* the Python int n, for n a TLC integer
Z(n) == [hi |-> (n \div H) \div H, w1 |-> (n \div H) % H, w0 |-> n % H]

\* the Python int h * 2^32 + a * 2^16 + b, carries propagated
Norm(h, a, b) ==
    LET a1 == a + (b \div H)
    IN  [hi |-> h + (a1 \div H), w1 |-> a1 % H, w0 |-> b % H]

ZAdd(x, y) == Norm(x.hi + y.hi, x.w1 + y.w1, x.w0 + y.w0)

ZSub(x, y) == Norm(x.hi - y.hi, x.w1 - y.w1, x.w0 - y.w0)

\* 0 <= x < 2^32: what struct.pack('<I', x) accepts
IsU32(x) == x.hi = 0

\* -2^31 <= x < 2^31: what struct.pack('<i', x) accepts
IsI32(x) == \/ x.hi = 0 /\ x.w1 < 32768
            \/ x.hi = -1 /\ x.w1 >= 32768

\* the TLC integer of a Python int that fits 32 signed bits
ToInt(x) == (x.w1 + x.hi * H) * H + x.w0

ZLess(x, y) ==
    \/ x.hi < y.hi
    \/ x.hi = y.hi /\ x.w1 < y.w1
    \/ x.hi = y.hi /\ x.w1 = y.w1 /\ x.w0 < y.w0

\* x as a TLC integer when |x| < 2^30, and else +-2^30: enough to decide
\* every comparison with a bytearray index
Sat(x) ==
    IF x.hi > 0 \/ (x.hi = 0 /\ x.w1 >= 16384) THEN 2^30
    ELSE IF x.hi < -1 \/ (x.hi = -1 /\ x.w1 < 49152) THEN -(2^30)
    ELSE ToInt(x)

\* x * k for 0 <= k <= 2^15 and |x.hi| <= 2^15
ZMulSmall(x, k) == Norm(x.hi * k, x.w1 * k, x.w0 * k)

\* Python's x << n for a signed 32-bit x and 0 <= n <= 31
ZShl(x, n) ==
    IF n < 16 THEN ZMulSmall(x, 2^n)
    ELSE ZMulSmall([hi |-> x.hi * H + x.w1, w1 |-> x.w0, w0 |-> 0], 2^(n - 16))

\* Python's u >> n for an unsigned 32-bit u and 0 <= n <= 31
ZShrU(x, n) ==
    IF n >= 16 THEN [hi |-> 0, w1 |-> 0, w0 |-> x.w1 \div 2^(n - 16)]
    ELSE [hi |-> 0, w1 |-> x.w1 \div 2^n,
          w0 |-> (x.w1 % 2^n) * 2^(16 - n) + (x.w0 \div 2^n)]

\* Python's a >> n (floor) for a signed 32-bit TLC integer a and 0 <= n <= 31
ShrS(a, n) == IF n >= 16 THEN (a \div H) \div 2^(n - 16) ELSE a \div 2^n

\* the byte digits of a signed 32-bit TLC integer: a = d[4]*2^24 + d[3]*2^16
\* + d[2]*2^8 + d[1] with d[4] in -128..127 and the others in 0..255
Digits(a) == << a % 256, (a \div 256) % 256, (a \div H) % 256, (a \div H) \div 256 >>

\* Python's a * b for signed 32-bit TLC integers a and b
ZMul(a, b) ==
    LET x == Digits(a)
        y == Digits(b)
        c(k) == LET S == {i \in 1..4 : k + 2 - i \in 1..4}
                    RECURSIVE Sum(_)
                    Sum(T) == IF T = {} THEN 0
                              ELSE LET i == CHOOSE j \in T : TRUE
                                   IN x[i] * y[k + 2 - i] + Sum(T \ {i})
                IN Sum(S)
        \* coefficient k of 2^(8k), k = 0..6
        t0 == c(0)
        t1 == c(1) + (t0 \div 256)
        t2 == c(2) + (t1 \div 256)
        t3 == c(3) + (t2 \div 256)
        high == c(4) + 256 * c(5) + H * c(6) + (t3 \div 256)
    IN  [hi |-> high,
         w1 |-> (t3 % 256) * 256 + (t2 % 256),
         w0 |-> (t1 % 256) * 256 + (t0 % 256)]

MinInt == -(2^30) - 2^30

\* Python's int(a / b), the quotient truncated toward zero, for signed
\* 32-bit TLC integers a and b # 0
TruncDiv(a, b) ==
    LET pos(n, d) == LET f == n \div d    \* d > 0
                     IN IF n < 0 /\ n % d # 0 THEN f + 1 ELSE f
    IN  IF b > 0 THEN Z(pos(a, b))
        ELSE IF b = MinInt THEN Z(IF a = MinInt THEN 1 ELSE 0)
        ELSE IF a = MinInt /\ b = -1 THEN [hi |-> 0, w1 |-> 32768, w0 |-> 0]
        ELSE Z(-pos(a, -b))

\* Python's a % b, which has the sign of the divisor b, for signed 32-bit
\* TLC integers a and b # 0
PyMod(a, b) ==
    IF b > 0 THEN a % b
    ELSE IF b = MinInt THEN (IF a = MinInt THEN 0 ELSE IF a > 0 THEN a + MinInt ELSE a)
    ELSE LET m == a % (-b) IN IF m = 0 THEN 0 ELSE m + b

RECURSIVE BitAnd(_, _, _)
BitAnd(a, b, n) ==
    IF n = 0 THEN 0
    ELSE (IF a % 2 = 1 /\ b % 2 = 1 THEN 1 ELSE 0) + 2 * BitAnd(a \div 2, b \div 2, n - 1)

RECURSIVE BitOr(_, _, _)
BitOr(a, b, n) ==
    IF n = 0 THEN 0
    ELSE (IF a % 2 = 1 \/ b % 2 = 1 THEN 1 ELSE 0) + 2 * BitOr(a \div 2, b \div 2, n - 1)

RECURSIVE BitXor(_, _, _)
BitXor(a, b, n) ==
    IF n = 0 THEN 0
    ELSE (IF a % 2 # b % 2 THEN 1 ELSE 0) + 2 * BitXor(a \div 2, b \div 2, n - 1)

\* the signed Python int whose low 32 bits are the halfwords w1, w0
SignedOf(w1, w0) == [hi |-> IF w1 >= 32768 THEN -1 ELSE 0, w1 |-> w1, w0 |-> w0]

\* Python's a ^ b, a | b, a & b for signed 32-bit TLC integers
ZXor(a, b) == SignedOf(BitXor(Z(a).w1, Z(b).w1, 16), BitXor(Z(a).w0, Z(b).w0, 16))
ZOr(a, b)  == SignedOf(BitOr(Z(a).w1, Z(b).w1, 16), BitOr(Z(a).w0, Z(b).w0, 16))
ZAnd(a, b) == SignedOf(BitAnd(Z(a).w1, Z(b).w1, 16), BitAnd(Z(a).w0, Z(b).w0, 16))

\* Python's x & ~1
ClearBit0(x) == [x EXCEPT !.w0 = x.w0 - (x.w0 % 2)]

---------------------------------------------------------------------------
(* bytearray: [len, data], data the function from the indices of the       *)
(* non-zero bytes to those bytes                                           *)

\* bytearray(n)
bytearray(n) == [len |-> n, data |-> [i \in {} |-> 0]]

\* the bytes object of the byte sequence s
Bytes(s) ==
    [len |-> Len(s),
     data |-> [i \in {k \in 0..(Len(s) - 1) : s[k + 1] # 0} |-> s[i + 1]]]

ByteAt(m, i) == IF i \in DOMAIN m.data THEN m.data[i] ELSE 0

\* PySlice_AdjustIndices: the bound i of a slice of a sequence of length n
AdjustIndex(i, n) ==
    IF i < 0 THEN (IF i + n < 0 THEN 0 ELSE i + n)
    ELSE IF i > n THEN n ELSE i

\* m[lo:hi] for Python ints lo, hi, as a sequence of bytes
GetSlice(m, lo, hi) ==
    LET start == AdjustIndex(Sat(lo), m.len)
        stop  == AdjustIndex(Sat(hi), m.len)
    IN  [k \in 1..(stop - start) |-> ByteAt(m, start + k - 1)]

\* m after m[lo:hi] = src (src a bytes object): the slice is replaced by
\* src, whatever their lengths; an empty slice is an insertion at start
SetSlice(m, lo, hi, src) ==
    LET start == AdjustIndex(Sat(lo), m.len)
        stop0 == AdjustIndex(Sat(hi), m.len)
        stop  == IF stop0 < start THEN start ELSE stop0
        shift == src.len - (stop - start)
        dom   == {i \in DOMAIN m.data : i < start}
                 \cup {start + j : j \in DOMAIN src.data}
                 \cup {i + shift : i \in {k \in DOMAIN m.data : k >= stop}}
    IN  [len  |-> m.len + shift,
         data |-> [i \in dom |->
                     IF i < start THEN m.data[i]
                     ELSE IF i < start + src.len THEN src.data[i - start]
                     ELSE m.data[i - shift]]]

---------------------------------------------------------------------------
(* class Instruction: the decoded fields of the word with little-endian    *)
(* bytes b[1..4] (hex_instr = b[1] + b[2]*2^8 + b[3]*2^16 + b[4]*2^24)     *)

\* Instruction._sign_extend: (value & (sign_bit - 1)) - (value & sign_bit)
sign_extend(value, bits) ==
    LET sign_bit == 2^(bits - 1)
    IN  (value % sign_bit) - ((value \div sign_bit) % 2) * sign_bit

Instruction(b) ==
    LET rd_     == (b[1] \div 128) + 2 * (b[2] % 16)
        funct7_ == b[4] \div 2
    IN  [opcode |-> b[1] % 128,
         rd     |-> rd_,
         funct3 |-> (b[2] \div 16) % 8,
         rs1    |-> (b[2] \div 128) + 2 * (b[3] % 16),
         rs2    |-> (b[3] \div 16) + 16 * (b[4] % 2),
         funct7 |-> funct7_,
         imm_I  |-> sign_extend((b[3] \div 16) + 16 * b[4], 12),
         imm_S  |-> sign_extend(funct7_ * 32 + rd_, 12),
         imm_B  |-> sign_extend((b[4] \div 128) * 4096 + (funct7_ % 64) * 32
                                + (b[2] % 16) * 2 + (b[1] \div 128) * 2048, 13),
         \* sign_extend(hex_instr & 0xFFFFF000, 32), as a Python int
         imm_U  |-> SignedOf(b[4] * 256 + b[3], (b[2] \div 16) * 4096),
         imm_J  |-> sign_extend((b[4] \div 128) * 2^20
                                + ((b[2] \div 16) + 16 * (b[3] % 16)) * 4096
                                + ((b[3] \div 16) % 2) * 2048
                                + ((b[3] \div 32) + 8 * (b[4] % 128)) * 2, 21)]

---------------------------------------------------------------------------
(* class RISCVSimulator                                                    *)

RegIndex == 0..31

\* [0] * 32
ZeroRegisters == [i \in RegIndex |-> Z(0)]

\* _get_signed_reg: struct.pack('<I', v) raises struct.error unless
\* 0 <= v < 2^32; the word is then read back as a signed 32-bit integer
CanGetSigned(rg, reg_index) == IsU32(rg[reg_index])

get_signed_reg(rg, reg_index) ==
    LET v == rg[reg_index]
    IN  (IF v.w1 >= 32768 THEN v.w1 - H ELSE v.w1) * H + v.w0

\* What executing one decoded instruction does: raised (an exception left
\* run_single_step, nothing had been written), else the registers and the
\* memory as written and next_pc.
Raised(rg, mem, p) ==
    [raised |-> TRUE, registers |-> rg, memory |-> mem, next_pc |-> p]

Executed(rg, mem, np) ==
    [raised |-> FALSE, registers |-> rg, memory |-> mem, next_pc |-> np]

\* opcode 0x33: the funct3 chain, then the funct7 == 0x01 chain, each write
\* going to registers[rd] in turn
ExecOP(instr, rg, mem, p) ==
    IF ~CanGetSigned(rg, instr.rs1) \/ ~CanGetSigned(rg, instr.rs2)
    THEN Raised(rg, mem, p)
    ELSE
    LET rs1_val == get_signed_reg(rg, instr.rs1)
        rs2_val == get_signed_reg(rg, instr.rs2)
        f3 == instr.funct3
        f7 == instr.funct7
        shamt == rs2_val % 32                       \* rs2_val & 0x1F
        first ==
            CASE f3 = 0 /\ f7 = 0  -> << ZAdd(Z(rs1_val), Z(rs2_val)) >>   \* add
              [] f3 = 0 /\ f7 = 32 -> << ZSub(Z(rs1_val), Z(rs2_val)) >>   \* sub
              [] f3 = 4 -> << ZXor(rs1_val, rs2_val) >>                     \* xor
              [] f3 = 6 -> << ZOr(rs1_val, rs2_val) >>                      \* or
              [] f3 = 7 -> << ZAnd(rs1_val, rs2_val) >>                     \* and
              [] f3 = 1 -> << ZShl(Z(rs1_val), shamt) >>                    \* sll
              [] f3 = 5 /\ f7 = 0  -> << ZShrU(rg[instr.rs1], shamt) >>     \* srl
              [] f3 = 5 /\ f7 = 32 -> << Z(ShrS(rs1_val, shamt)) >>         \* sra
              [] f3 = 2 -> << Z(IF rs1_val < rs2_val THEN 1 ELSE 0) >>      \* slt
              [] f3 = 3 -> << Z(IF ZLess(rg[instr.rs1], rg[instr.rs2])
                                THEN 1 ELSE 0) >>                           \* sltu
              [] OTHER -> << >>
        second ==
            IF f7 # 1 THEN << >>
            ELSE CASE f3 = 0 -> << ZMul(rs1_val, rs2_val) >>                \* mul
                   [] f3 = 1 -> << Z(ZMul(rs1_val, rs2_val).hi) >>          \* mulh
                   [] f3 = 4 -> << IF rs2_val = 0 THEN Z(-1)
                                   ELSE TruncDiv(rs1_val, rs2_val) >>       \* div
                   [] f3 = 6 -> << IF rs2_val = 0 THEN Z(rs1_val)
                                   ELSE Z(PyMod(rs1_val, rs2_val)) >>       \* rem
                   [] OTHER -> << >>
        writes == first \o second
    IN  Executed(IF writes = << >> THEN rg
                 ELSE [rg EXCEPT ![instr.rd] = writes[Len(writes)]],
                 mem, ZAdd(p, Z(4)))

\* opcode 0x13, whatever funct3 is
ExecOPIMM(instr, rg, mem, p) ==
    Executed([rg EXCEPT ![instr.rd] = ZAdd(rg[instr.rs1], Z(instr.imm_I))],
             mem, ZAdd(p, Z(4)))

\* opcode 0x03: struct.unpack raises struct.error unless the slice has
\* exactly the 4 (lw) or 2 (lh) bytes
ExecLOAD(instr, rg, mem, p) ==
    LET address == ZAdd(rg[instr.rs1], Z(instr.imm_I))
        word    == GetSlice(mem, address, ZAdd(address, Z(4)))
        half    == GetSlice(mem, address, ZAdd(address, Z(2)))
    IN  CASE instr.funct3 = 2 ->
               IF Len(word) # 4 THEN Raised(rg, mem, p)
               ELSE Executed([rg EXCEPT ![instr.rd] =
                                SignedOf(word[4] * 256 + word[3],
                                         word[2] * 256 + word[1])],
                             mem, ZAdd(p, Z(4)))
          [] instr.funct3 = 1 ->
               IF Len(half) # 2 THEN Raised(rg, mem, p)
               ELSE Executed([rg EXCEPT ![instr.rd] =
                                Z(sign_extend(half[2] * 256 + half[1], 16))],
                             mem, ZAdd(p, Z(4)))
          [] OTHER -> Executed(rg, mem, ZAdd(p, Z(4)))

\* opcode 0x23: struct.pack('<i', v) raises unless v fits 32 signed bits,
\* struct.pack('<h', v & 0xFFFF) unless v & 0xFFFF <= 32767; the slice
\* assignment then replaces memory[address:address+n] by the packed bytes
ExecSTORE(instr, rg, mem, p) ==
    LET address == ZAdd(rg[instr.rs1], Z(instr.imm_S))
        v       == rg[instr.rs2]
    IN  CASE instr.funct3 = 2 ->
               IF ~IsI32(v) THEN Raised(rg, mem, p)
               ELSE Executed(rg,
                             SetSlice(mem, address, ZAdd(address, Z(4)),
                                      Bytes(<< v.w0 % 256, v.w0 \div 256,
                                               v.w1 % 256, v.w1 \div 256 >>)),
                             ZAdd(p, Z(4)))
          [] instr.funct3 = 1 ->
               IF v.w0 > 32767 THEN Raised(rg, mem, p)
               ELSE Executed(rg,
                             SetSlice(mem, address, ZAdd(address, Z(2)),
                                      Bytes(<< v.w0 % 256, v.w0 \div 256 >>)),
                             ZAdd(p, Z(4)))
          [] OTHER -> Executed(rg, mem, ZAdd(p, Z(4)))

\* condition_met with bne (line 126) taken when the registers are equal
condition_met_BneAsBeq(instr, rg) ==
    get_signed_reg(rg, instr.rs1) = get_signed_reg(rg, instr.rs2)

\* opcode 0x63
condition_met(instr, rg) ==
    LET rs1_val == get_signed_reg(rg, instr.rs1)
        rs2_val == get_signed_reg(rg, instr.rs2)
    IN  CASE instr.funct3 = 0 -> rs1_val = rs2_val                           \* beq
          [] instr.funct3 = 1 -> rs1_val # rs2_val                           \* bne
          [] instr.funct3 = 4 -> rs1_val < rs2_val                           \* blt
          [] instr.funct3 = 5 -> rs1_val >= rs2_val                          \* bge
          [] instr.funct3 = 6 -> ZLess(rg[instr.rs1], rg[instr.rs2])         \* bltu
          [] instr.funct3 = 7 -> ~ZLess(rg[instr.rs1], rg[instr.rs2])        \* bgeu
          [] OTHER -> FALSE

ExecBRANCH(instr, rg, mem, p) ==
    IF ~CanGetSigned(rg, instr.rs1) \/ ~CanGetSigned(rg, instr.rs2)
    THEN Raised(rg, mem, p)
    ELSE Executed(rg, mem, IF condition_met(instr, rg)
                           THEN ZAdd(p, Z(instr.imm_B))
                           ELSE ZAdd(p, Z(4)))

\* opcode 0x37
ExecLUI(instr, rg, mem, p) ==
    Executed([rg EXCEPT ![instr.rd] = instr.imm_U], mem, ZAdd(p, Z(4)))

\* opcode 0x17
ExecAUIPC(instr, rg, mem, p) ==
    Executed([rg EXCEPT ![instr.rd] = ZAdd(p, instr.imm_U)], mem, ZAdd(p, Z(4)))

\* opcode 0x6F
ExecJAL(instr, rg, mem, p) ==
    Executed([rg EXCEPT ![instr.rd] = ZAdd(p, Z(4))], mem, ZAdd(p, Z(instr.imm_J)))

\* JalrTarget without the & ~1
JalrTarget_NoMask(rs1_value, imm) == ZAdd(rs1_value, Z(imm))

\* line 139: (self.registers[instr.rs1] + instr.imm_I) & ~1
JalrTarget(rs1_value, imm) == ClearBit0(ZAdd(rs1_value, Z(imm)))

\* opcode 0x67: registers[rd] is written first, and next_pc is then
\* computed from registers[rs1] as it is after that write
ExecJALR(instr, rg, mem, p) ==
    LET rg1 == [rg EXCEPT ![instr.rd] = ZAdd(p, Z(4))]
    IN  Executed(rg1, mem, JalrTarget(rg1[instr.rs1], instr.imm_I))

\* the opcodes of the if/elif chain of run_single_step
KnownOpcodes == {51, 19, 3, 35, 99, 55, 23, 111, 103}

Execute(instr, rg, mem, p) ==
    CASE instr.opcode = 51  -> ExecOP(instr, rg, mem, p)
      [] instr.opcode = 19  -> ExecOPIMM(instr, rg, mem, p)
      [] instr.opcode = 3   -> ExecLOAD(instr, rg, mem, p)
      [] instr.opcode = 35  -> ExecSTORE(instr, rg, mem, p)
      [] instr.opcode = 99  -> ExecBRANCH(instr, rg, mem, p)
      [] instr.opcode = 55  -> ExecLUI(instr, rg, mem, p)
      [] instr.opcode = 23  -> ExecAUIPC(instr, rg, mem, p)
      [] instr.opcode = 111 -> ExecJAL(instr, rg, mem, p)
      [] instr.opcode = 103 -> ExecJALR(instr, rg, mem, p)

\* Outcome with a Halt that has moved the PC to the next word first
Outcome_HaltAdvances(ret, p, rg, mem, fetched) ==
    [ret |-> ret, pc |-> IF ret = "Halt" THEN ZAdd(p, Z(4)) ELSE p,
     registers |-> rg, memory |-> mem, instr |-> fetched]

\* The outcome of one call: ret is "Continue" (True), "Halt" (False) or
\* "Raise" (an exception), with the state the call leaves and the bytes it
\* fetched.
Outcome(ret, p, rg, mem, fetched) ==
    [ret |-> ret, pc |-> p, registers |-> rg, memory |-> mem, instr |-> fetched]

\* WriteX0 with the write of line 142 left out
WriteX0_Skipped(rg) == rg

\* line 142: self.registers[0] = 0
WriteX0(rg) == [rg EXCEPT ![0] = Z(0)]

\* lines 142-144
Commit(e, fetched) == Outcome("Continue", e.next_pc, WriteX0(e.registers), e.memory, fetched)

\* UnknownOpcode falling through to lines 142-144 instead of returning False
UnknownOpcode_FallsThrough(p, rg, mem, fetched) ==
    Outcome("Continue", ZAdd(p, Z(4)), [rg EXCEPT ![0] = Z(0)], mem, fetched)

\* line 140: else: return False
UnknownOpcode(p, rg, mem, fetched) == Outcome("Halt", p, rg, mem, fetched)

\* lines 78-82: the bytes at pc, or << >> when the call returns False
\* before decoding
Fetch(p, mem) ==
    IF ~ZLess(p, Z(mem_size)) THEN << >>
    ELSE GetSlice(mem, p, ZAdd(p, Z(4)))

Step(p, rg, mem) ==
    LET instruction_bytes == Fetch(p, mem)
    IN  IF Len(instruction_bytes) < 4 THEN Outcome("Halt", p, rg, mem, << >>)
        ELSE IF instruction_bytes = <<0, 0, 0, 0>>
             THEN Outcome("Halt", p, rg, mem, instruction_bytes)
        ELSE LET instr == Instruction(instruction_bytes)
             IN  IF instr.opcode \notin KnownOpcodes
                 THEN UnknownOpcode(p, rg, mem, instruction_bytes)
                 ELSE LET e == Execute(instr, rg, mem, p)
                      IN  IF e.raised
                          THEN Outcome("Raise", p, rg, mem, instruction_bytes)
                          ELSE Commit(e, instruction_bytes)

---------------------------------------------------------------------------
(* Program images.  The instruction words are built the way second_pass of *)
(* src/Src/assembler.py lays out each format, for operands that fit their  *)
(* fields (Asm), and character by character for any operand (the          *)
(* assembler below).                                                       *)

\* Bit strings are sequences of the characters "0", "1", "b" and "-".

\* bin(n)[2:] for n >= 0: the binary digits of n
RECURSIVE bin(_)
bin(n) ==
    LET d == IF n % 2 = 1 THEN "1" ELSE "0"
    IN  IF n < 2 THEN << d >> ELSE bin(n \div 2) \o << d >>

\* width zeros
Zeros(width) == [i \in 1..width |-> "0"]

\* str.zfill(width): zeros on the left, after a leading sign
zfill(s, width) ==
    IF Len(s) >= width THEN s
    ELSE IF s # << >> /\ s[1] = "-"
         THEN << "-" >> \o Zeros(width - Len(s)) \o Tail(s)
         ELSE Zeros(width - Len(s)) \o s

\* to_binary(n, bits, signed).  For signed and n < 0 it is
\* bin((1 << bits) + n)[2:].zfill(bits), where bin of a negative number is
\* "-0b..." and [2:] leaves "b..."; otherwise it is f'{n:0{bits}b}', which
\* is at least bits characters wide, the sign of a negative n included.
to_binary(n, bits, signed) ==
    IF signed /\ n < 0
    THEN LET m == 2^bits + n
         IN  zfill(IF m < 0 THEN << "b" >> \o bin(-m) ELSE bin(m), bits)
    ELSE IF n < 0 THEN zfill(<< "-" >> \o bin(-n), bits)
         ELSE zfill(bin(n), bits)

\* f'{v:0{width}b}' for 0 <= v < 2^width: a field of the tables REGS and
\* OPCODES
Field(v, width) == zfill(bin(v), width)

\* the number a string of binary digits denotes (at most 30 digits)
RECURSIVE Value(_)
Value(s) ==
    IF s = << >> THEN 0
    ELSE 2 * Value(SubSeq(s, 1, Len(s) - 1)) + (IF s[Len(s)] = "1" THEN 1 ELSE 0)

\* s[lo:hi] of a string, 0 <= lo <= hi
Sub(s, lo, hi) ==
    SubSeq(s, lo + 1, IF hi > Len(s) THEN Len(s) ELSE hi)

\* int(s, 2): an optional sign, an optional "0b", then binary digits, at
\* least one; anything else is a ValueError.  The result is kept as its
\* sign and its digits without leading zeros.
int2(s) ==
    LET neg == s # << >> /\ s[1] = "-"
        t   == IF neg THEN Tail(s) ELSE s
        u   == IF Len(t) >= 2 /\ t[1] = "0" /\ t[2] = "b"
               THEN SubSeq(t, 3, Len(t)) ELSE t
        nz  == {i \in 1..Len(u) : u[i] = "1"}
        first == IF nz = {} THEN Len(u) + 1
                 ELSE CHOOSE i \in nz : \A j \in nz : i <= j
    IN  IF u = << >> \/ \E i \in 1..Len(u) : u[i] \notin {"0", "1"}
        THEN [ok |-> FALSE, neg |-> FALSE, digits |-> << >>]
        ELSE [ok |-> TRUE, neg |-> neg /\ nz # {},
              digits |-> SubSeq(u, first, Len(u))]

\* struct.pack('<I', v) of v = int2(s): struct.error unless 0 <= v < 2^32,
\* else the four little-endian bytes
pack_I(v) ==
    IF v.neg \/ Len(v.digits) > 32 THEN [ok |-> FALSE, bytes |-> << >>]
    ELSE LET w == zfill(v.digits, 32)
         IN  [ok |-> TRUE,
              bytes |-> << Value(SubSeq(w, 25, 32)), Value(SubSeq(w, 17, 24)),
                           Value(SubSeq(w, 9, 16)), Value(SubSeq(w, 1, 8)) >>]

\* the little-endian bytes of the word funct7|rs2|rs1|funct3|rd|opcode
Word(funct7, rs2, rs1, funct3, rd, opcode) ==
    << opcode + (rd % 2) * 128,
       (rd \div 2) + funct3 * 16 + (rs1 % 2) * 128,
       (rs1 \div 2) + (rs2 % 16) * 16,
       (rs2 \div 16) + funct7 * 2 >>

\* the little-endian bytes of the word imm20|rd|opcode
WordU(imm20, rd, opcode) ==
    Word(imm20 \div 8192, (imm20 \div 256) % 32, (imm20 \div 8) % 32,
         imm20 % 8, rd, opcode)

\* OPCODES: mnemonic -> <<opcode, funct3, funct7, format>> (0 for None)
OPCODES ==
    ("add"  :> <<51, 0, 0, "R">>)  @@ ("sub"  :> <<51, 0, 32, "R">>) @@
    ("xor"  :> <<51, 4, 0, "R">>)  @@ ("or"   :> <<51, 6, 0, "R">>)  @@
    ("and"  :> <<51, 7, 0, "R">>)  @@ ("sll"  :> <<51, 1, 0, "R">>)  @@
    ("srl"  :> <<51, 5, 0, "R">>)  @@ ("sra"  :> <<51, 5, 32, "R">>) @@
    ("slt"  :> <<51, 2, 0, "R">>)  @@ ("sltu" :> <<51, 3, 0, "R">>)  @@
    ("mul"  :> <<51, 0, 1, "R">>)  @@ ("mulh" :> <<51, 1, 1, "R">>)  @@
    ("div"  :> <<51, 4, 1, "R">>)  @@ ("rem"  :> <<51, 6, 1, "R">>)  @@
    ("addi" :> <<19, 0, 0, "I">>)  @@ ("xori" :> <<19, 4, 0, "I">>)  @@
    ("lw"   :> <<3, 2, 0, "I-load">>) @@ ("lh" :> <<3, 1, 0, "I-load">>) @@
    ("jalr" :> <<103, 0, 0, "I">>) @@ ("sw"   :> <<35, 2, 0, "S">>)  @@
    ("sh"   :> <<35, 1, 0, "S">>)  @@ ("beq"  :> <<99, 0, 0, "B">>)  @@
    ("bne"  :> <<99, 1, 0, "B">>)  @@ ("blt"  :> <<99, 4, 0, "B">>)  @@
    ("bge"  :> <<99, 5, 0, "B">>)  @@ ("bltu" :> <<99, 6, 0, "B">>)  @@
    ("bgeu" :> <<99, 7, 0, "B">>)  @@ ("lui"  :> <<55, 0, 0, "U">>)  @@
    ("auipc" :> <<23, 0, 0, "U">>) @@ ("jal"  :> <<111, 0, 0, "J">>)

\* The word second_pass emits for mnemonic op with operands a, b, c in
\* source order (registers as indices, a label as its offset from the
\* instruction):   R: rd, rs1, rs2      I: rd, rs1, imm
\*   I-load: rd, imm(rs1)   S: rs2, imm(rs1)   B: rs1, rs2, offset
\*   U: rd, imm             J: rd, offset
Asm(op, a, b, c) ==
    LET opcode == OPCODES[op][1]
        funct3 == OPCODES[op][2]
        funct7 == OPCODES[op][3]
        fmt    == OPCODES[op][4]
    IN  CASE fmt = "R" -> Word(funct7, c, b, funct3, a, opcode)
          [] fmt = "I" ->
               LET imm == Value(to_binary(c, 12, TRUE))
               IN  Word(imm \div 32, imm % 32, b, funct3, a, opcode)
          [] fmt = "I-load" ->
               LET imm == Value(to_binary(b, 12, TRUE))
               IN  Word(imm \div 32, imm % 32, c, funct3, a, opcode)
          [] fmt = "S" ->
               LET imm == Value(to_binary(b, 12, TRUE))
               IN  Word(imm \div 32, a, c, funct3, imm % 32, opcode)
          [] fmt = "B" ->
               LET imm == Value(to_binary(c, 13, TRUE))
               IN  Word((imm \div 4096) * 64 + ((imm \div 32) % 64), b, a, funct3,
                        ((imm \div 2) % 16) * 2 + ((imm \div 2048) % 2), opcode)
          [] fmt = "U" -> WordU(b, a, opcode)
          [] fmt = "J" ->
               LET imm == Value(to_binary(b, 21, TRUE))
               IN  WordU((imm \div 2^20) * 2^19 + ((imm \div 2) % 1024) * 512
                         + ((imm \div 2048) % 2) * 256 + ((imm \div 4096) % 256),
                         a, opcode)

RECURSIVE Flatten(_)
Flatten(words) ==
    IF words = << >> THEN << >> ELSE Head(words) \o Flatten(Tail(words))

\* the file holding the words
Image(words) == Bytes(Flatten(words))

\* the file of n bytes holding the words, then zeros, then the byte tail
PaddedImage(words, n, tail) ==
    LET img == Image(words)
    IN  [len |-> n,
         data |-> [i \in DOMAIN img.data \cup {n - 1} |->
                     IF i = n - 1 THEN tail ELSE img.data[i]]]

---------------------------------------------------------------------------
(* The files load_program is given                                         *)

\* programs of the specification's scenarios and of the simulator's corner
\* cases (the first instruction is at 0x1000)
Scenarios ==
    { \* addi x1,x0,5 ; addi x2,x0,7 ; add x3,x1,x2
      << Asm("addi", 1, 0, 5), Asm("addi", 2, 0, 7), Asm("add", 3, 1, 2) >>,
      \* addi x1,x0,-1 ; add x2,x1,x1 ; addi x3,x0,1
      << Asm("addi", 1, 0, -1), Asm("add", 2, 1, 1), Asm("addi", 3, 0, 1) >>,
      \* addi x1,x0,2 ; jalr x0,x1,0
      << Asm("addi", 1, 0, 2), Asm("jalr", 0, 1, 0) >>,
      \* addi x1,x0,7 ; jalr x5,x1,0
      << Asm("addi", 1, 0, 7), Asm("jalr", 5, 1, 0) >>,
      \* addi x2,x0,19 ; sw x2,-8(x0) ; jal x0,-8 (absolute)
      << Asm("addi", 2, 0, 19), Asm("sw", 2, -8, 0), Asm("jal", 0, -4112, 0) >>,
      \* addi x2,x0,19 ; sw x2,-2(x0) ; jal x1,mem_size-2 (absolute)
      << Asm("addi", 2, 0, 19), Asm("sw", 2, -2, 0), Asm("jal", 1, 61430, 0) >>,
      \* addi x2,x0,7 ; sw x2,-4(x0) ; sh x2,-1(x0) ; lw x3,-4(x0)
      << Asm("addi", 2, 0, 7), Asm("sw", 2, -4, 0), Asm("sh", 2, -1, 0),
         Asm("lw", 3, -4, 0) >>,
      \* jalr x0,x0,-8
      << Asm("jalr", 0, 0, -8) >>,
      \* addi x1,x0,64 ; jalr x1,x1,4 ; beq x0,x0,-4096
      << Asm("addi", 1, 0, 64), Asm("jalr", 1, 1, 4), Asm("beq", 0, 0, -4096) >>,
      \* addi x1,x0,5 ; an undefined word (opcode 0x7F)
      << Asm("addi", 1, 0, 5), <<255, 255, 255, 255>> >>,
      \* addi x1,x0,5 ; sw x1,0(x0) ; an undefined word (opcode 0x0B)
      << Asm("addi", 1, 0, 5), Asm("sw", 1, 0, 0), <<11, 1, 0, 0>> >>,
      \* addi x1,x0,0 ; L: addi x1,x1,1 ; addi x2,x0,3 ; bne x1,x2,L
      << Asm("addi", 1, 0, 0), Asm("addi", 1, 1, 1), Asm("addi", 2, 0, 3),
         Asm("bne", 1, 2, -8) >>,
      \* L: addi x1,x1,1 ; jal x0,L
      << Asm("addi", 1, 1, 1), Asm("jal", 0, -4, 0) >>,
      \* addi x2,x0,19 ; sw x2,64(x0) ; lw x3,64(x0) ; lh x4,64(x0)
      << Asm("addi", 2, 0, 19), Asm("sw", 2, 64, 0), Asm("lw", 3, 64, 0),
         Asm("lh", 4, 64, 0) >>,
      \* lw x1,-4(x0)
      << Asm("lw", 1, -4, 0) >>,
      \* lui x2,0xABCD ; sh x2,64(x0)
      << Asm("lui", 2, 43981, 0), Asm("sh", 2, 64, 0) >>,
      \* lui x1,0x80000 ; auipc x2,1 ; addi x3,x1,-1 ; sw x3,64(x0)
      << Asm("lui", 1, 524288, 0), Asm("auipc", 2, 1, 0), Asm("addi", 3, 1, -1),
         Asm("sw", 3, 64, 0) >>,
      \* lui x1,0x7FFFF ; add x2,x1,x1 ; blt x2,x0,8 ; addi x3,x0,1 ; sltu x4,x0,x2
      << Asm("lui", 1, 524287, 0), Asm("add", 2, 1, 1), Asm("blt", 2, 0, 8),
         Asm("addi", 3, 0, 1), Asm("sltu", 4, 0, 2) >>,
      \* lui x1,0x7FFFF ; mul x2,x1,x1 ; addi x3,x2,1 ; jalr x0,x2,0
      << Asm("lui", 1, 524287, 0), Asm("mul", 2, 1, 1), Asm("addi", 3, 2, 1),
         Asm("jalr", 0, 2, 0) >>,
      \* addi x0,x0,5 ; lw x0,0(x0) ; lui x0,1 ; auipc x0,0 ; jal x0,4
      << Asm("addi", 0, 0, 5), Asm("lw", 0, 0, 0), Asm("lui", 0, 1, 0),
         Asm("auipc", 0, 0, 0), Asm("jal", 0, 4, 0) >>,
      \* lui x1,0x7FFFF ; add x2,x1,x1 ; sw x2,64(x0) ; lw x3,64(x0)
      << Asm("lui", 1, 524287, 0), Asm("add", 2, 1, 1), Asm("sw", 2, 64, 0),
         Asm("lw", 3, 64, 0) >>,
      \* addi x1,x0,-1 ; sw x1,64(x0) ; lw x3,64(x0)
      << Asm("addi", 1, 0, -1), Asm("sw", 1, 64, 0), Asm("lw", 3, 64, 0) >>,
      \* lui x1,0x12345 ; addi x1,x1,0x678 ; sw x1,-4(x1) ; lw x1,-4(x1)
      << Asm("lui", 1, 16, 0), Asm("addi", 1, 1, 1656), Asm("sw", 1, -4, 1),
         Asm("lw", 1, -4, 1) >>,
      \* addi x1,x0,7 ; div x3,x1,x0 ; rem x4,x1,x0 ; div x1,x1,x0
      << Asm("addi", 1, 0, 7), Asm("div", 3, 1, 0), Asm("rem", 4, 1, 0),
         Asm("div", 1, 1, 0) >>,
      \* lui x1,0x7FFFF ; add x2,x1,x1 ; rem x4,x2,x0 ; div x5,x2,x0
      << Asm("lui", 1, 524287, 0), Asm("add", 2, 1, 1), Asm("rem", 4, 2, 0),
         Asm("div", 5, 2, 0) >>,
      \* lui x5,0x1234B ; addi x5,x5,-1075 ; sh x5,64(x0)   (x5 = 0x1234ABCD)
      << Asm("lui", 5, 74571, 0), Asm("addi", 5, 5, -1075), Asm("sh", 5, 64, 0) >>,
      \* lui x5,0x12341 ; addi x5,x5,0x234 ; sh x5,64(x0) ; sh x5,-1(x0)
      << Asm("lui", 5, 74561, 0), Asm("addi", 5, 5, 564), Asm("sh", 5, 64, 0),
         Asm("sh", 5, -1, 0) >>,
      \* lui x1,0x7FFFF ; add x2,x1,x1 ; addi x3,x0,3 ; div x4,x2,x3 ; rem x5,x2,x3
      << Asm("lui", 1, 524287, 0), Asm("add", 2, 1, 1), Asm("addi", 3, 0, 3),
         Asm("div", 4, 2, 3), Asm("rem", 5, 2, 3) >>,
      \* addi x1,x0,7 ; lui x2,0x7FFFF ; add x2,x2,x2 ; div x4,x1,x2 ; rem x5,x1,x2
      << Asm("addi", 1, 0, 7), Asm("lui", 2, 524287, 0), Asm("add", 2, 2, 2),
         Asm("div", 4, 1, 2), Asm("rem", 5, 1, 2) >>
    }
    \* addi x2,x0,-1 ; <a comparison of x0 with x2>
    \cup { << Asm("addi", 2, 0, -1), ins >> :
             ins \in { Asm("bltu", 0, 2, 8), Asm("blt", 0, 2, 8),
                       Asm("sltu", 3, 0, 2), Asm("slt", 3, 0, 2) } }

\* the third instruction of the programs
\*      addi x1,x0,a ; addi x2,x0,3 ; <instruction>
Pool ==
    { Asm(op, 3, 1, 2) : op \in {"add", "sub", "xor", "or", "and", "sll", "srl",
                                  "sra", "slt", "sltu", "mul", "mulh", "div",
                                  "rem"} }
    \cup { Asm(op, 1, 2, 8) : op \in {"beq", "bne", "blt", "bge", "bltu", "bgeu"} }
    \cup { Asm("addi", 3, 1, -9), Asm("xori", 3, 1, -1), Asm("jalr", 3, 1, 1),
           Asm("lw", 3, 4096, 1), Asm("lh", 3, 4098, 1),
           Asm("sw", 2, 0, 1), Asm("sh", 1, 2, 2),
           Asm("auipc", 3, 1048575, 0), Asm("jal", 3, -2, 0) }

PoolValues == {-7, 7}

Programs ==
    Scenarios
    \cup { << Asm("addi", 1, 0, a), Asm("addi", 2, 0, 3), ins >> :
             a \in PoolValues, ins \in Pool }

\* The files: every program, the longest file that fits above 0x1000 (its
\* last word is at mem_size - 4), one byte more, and the empty file.
Files ==
    { Image(prog) : prog \in Programs }
    \cup { PaddedImage(<< Asm("jal", 0, mem_size - LOAD_BASE - 4, 0) >>,
                       mem_size - LOAD_BASE, 0),
           PaddedImage(<< Asm("addi", 1, 0, 5) >>, mem_size - LOAD_BASE + 1, 170),
           Image(<< >>) }

---------------------------------------------------------------------------
(* The assembler of src/Src/assembler.py.  A source line, as main keeps it *)
(* after clean_line, is kept by its tokens: its label ("" for none), its   *)
(* mnemonic or directive ("" on a line that holds only a label) and its    *)
(* operands in source order (registers as indices; the immediates of I,    *)
(* I-load, S and U instructions as Imm, Hi or Lo; the values of a          *)
(* directive as integers; the literal of li as a Python int).              *)

Stmt(label, op, args) == [label |-> label, op |-> op, args |-> args]

\* an integer literal, %hi(label), %lo(label)
Imm(n) == [mod |-> "", v |-> n, label |-> ""]
Hi(l)  == [mod |-> "hi", v |-> 0, label |-> l]
Lo(l)  == [mod |-> "lo", v |-> 0, label |-> l]

\* the outcome of a computation that may raise: the exception ("" for
\* none) and the value
Ok(v)      == [err |-> "", v |-> v]
Raise(err) == [err |-> err, v |-> 0]

\* parse_immediate(imm_str, symbol_table)
parse_immediate(imm, symtab) ==
    IF imm.mod # ""
    THEN IF imm.label \notin DOMAIN symtab THEN Raise("ValueError")
         ELSE LET address == symtab[imm.label]
                  lo_part == address % 4096
              IN  IF imm.mod = "hi" THEN Ok((address + 2048) \div 4096)
                  ELSE Ok(IF lo_part >= 2048 THEN lo_part - 4096 ELSE lo_part)
    ELSE Ok(imm.v)

\* li: -2048 <= imm <= 2047
FitsAddi(imm) == IsI32(imm) /\ ToInt(imm) >= -2048 /\ ToInt(imm) <= 2047

\* li: upper = (imm + 0x800) >> 12 & 0xFFFFF, the bits 12..31 of imm + 0x800
li_upper(imm) ==
    LET t == ZAdd(imm, Z(2048)) IN t.w1 * 16 + (t.w0 \div 4096)

\* li: lower = imm & 0xFFF
li_lower(imm) == imm.w0 % 4096

\* expand_pseudo_instructions(line, symbol_table): the lines that replace
\* the line (the symbol table is not consulted)
expand_pseudo_instructions(line) ==
    LET op   == line.op
        args == line.args
    IN  CASE op = "la" ->
               << Stmt("", "auipc", << args[1], Hi(args[2]) >>),
                  Stmt("", "addi", << args[1], args[1], Lo(args[2]) >>) >>
          [] op = "nop" -> << Stmt("", "addi", << 0, 0, Imm(0) >>) >>
          [] op = "mv"  -> << Stmt("", "addi", << args[1], args[2], Imm(0) >>) >>
          [] op = "not" -> << Stmt("", "xori", << args[1], args[2], Imm(-1) >>) >>
          [] op = "neg" -> << Stmt("", "sub", << args[1], 0, args[2] >>) >>
          [] op = "li"  ->
               IF FitsAddi(args[2])
               THEN << Stmt("", "addi", << args[1], 0, Imm(ToInt(args[2])) >>) >>
               ELSE << Stmt("", "lui", << args[1], Imm(li_upper(args[2])) >>),
                       Stmt("", "addi",
                            << args[1], args[1], Imm(li_lower(args[2])) >>) >>
          [] OTHER -> << [line EXCEPT !.label = ""] >>

\* op.startswith('.'), for the directives of the sources
IsDirective(op) == op \in {".word", ".half", ".byte", ".align", ".text", ".data"}

\* (alignment - (location_counter % alignment)) % alignment for
\* alignment = 2 ** N
padding(lc, N) ==
    LET alignment == 2^N
    IN  (alignment - (lc % alignment)) % alignment

\* first_pass, lines 141-153: the location counter after the expanded lines
RECURSIVE Advance(_, _)
Advance(lc, expanded_lines) ==
    IF expanded_lines = << >> THEN lc
    ELSE LET l  == Head(expanded_lines)
             n  == Len(l.args)
             next == CASE l.op = ".word"  -> lc + 4 * n
                     [] l.op = ".half"  -> lc + 2 * n
                     [] l.op = ".byte"  -> lc + n
                     [] l.op = ".align" ->
                          lc + padding(lc, l.args[1])
                     [] l.op \in {".text", ".data"} -> lc
                     [] OTHER -> lc + 4
         IN  Advance(next, Tail(expanded_lines))

\* symbol_table[label] = location_counter
Define(symtab, label, lc) ==
    [l \in DOMAIN symtab \cup {label} |->
        IF l = label THEN lc ELSE symtab[l]]

\* One iteration of the loop of first_pass (lines 128-153) on the line:
\* the symbol table and the location counter after it
FirstPassLine(line, symtab, lc) ==
    [symtab |-> IF line.label # ""
                      THEN Define(symtab, line.label, lc)
                      ELSE symtab,
     lc |-> IF line.op = "" THEN lc
                          ELSE Advance(lc,
                                       expand_pseudo_instructions(line))]

\* first_pass, lines 148-149: directive_parts[1] of an .align line that has
\* no operand raises IndexError
FirstPassRaises(line) == line.op = ".align" /\ line.args = << >>

\* output_bytes.extend(b) for a bytes object b
extend(out, b) ==
    [len  |-> out.len + b.len,
     data |-> [i \in DOMAIN out.data
                     \cup {out.len + j : j \in DOMAIN b.data} |->
                 IF i < out.len THEN out.data[i]
                 ELSE b.data[i - out.len]]]

\* struct.pack('<i' | '<h' | '<b', v) for size = 4, 2, 1: struct.error
\* unless v fits size signed bytes, else its little-endian bytes
pack_signed(v, size) ==
    IF size < 4 /\ (v < -(2^(8 * size - 1)) \/ v >= 2^(8 * size - 1))
    THEN Raise("struct.error")
    ELSE Ok([i \in 1..size |-> Digits(v)[i] % 256])

\* the bytes of the values of a .word, .half or .byte directive
RECURSIVE pack_values(_, _)
pack_values(values, size) ==
    IF values = << >> THEN Ok(<< >>)
    ELSE LET h == pack_signed(Head(values), size)
             t == pack_values(Tail(values), size)
         IN  IF h.err # "" THEN h
             ELSE IF t.err # "" THEN t
             ELSE Ok(h.v \o t.v)

\* second_pass, lines 188-229: the binary_string of an instruction line
binary_string(l, symtab, lc) ==
    IF l.op \notin DOMAIN OPCODES THEN Raise("ValueError")
    ELSE
    LET opcode == Field(OPCODES[l.op][1], 7)
        funct3 == Field(OPCODES[l.op][2], 3)
        funct7 == Field(OPCODES[l.op][3], 7)
        fmt    == OPCODES[l.op][4]
        REGS(r) == Field(r, 5)
        a == l.args
    IN  CASE fmt = "I" ->
               LET imm == parse_immediate(a[3], symtab)
               IN  IF imm.err # "" THEN imm
                   ELSE Ok(to_binary(imm.v, 12, TRUE) \o REGS(a[2]) \o funct3
                           \o REGS(a[1]) \o opcode)
          [] fmt = "I-load" ->
               LET imm == parse_immediate(a[2], symtab)
               IN  IF imm.err # "" THEN imm
                   ELSE Ok(to_binary(imm.v, 12, TRUE) \o REGS(a[3]) \o funct3
                           \o REGS(a[1]) \o opcode)
          [] fmt = "U" ->
               LET imm == parse_immediate(a[2], symtab)
               IN  IF imm.err # "" THEN imm
                   ELSE Ok(to_binary(imm.v, 20, FALSE) \o REGS(a[1]) \o opcode)
          [] fmt = "R" ->
               Ok(funct7 \o REGS(a[3]) \o REGS(a[2]) \o funct3 \o REGS(a[1])
                  \o opcode)
          [] fmt = "S" ->
               LET imm == parse_immediate(a[2], symtab)
                   imm_bin == to_binary(imm.v, 12, TRUE)
               IN  IF imm.err # "" THEN imm
                   ELSE Ok(Sub(imm_bin, 0, 7) \o REGS(a[1]) \o REGS(a[3])
                           \o funct3 \o Sub(imm_bin, 7, 12) \o opcode)
          [] fmt = "B" ->
               IF a[3] \notin DOMAIN symtab THEN Raise("KeyError")
               ELSE LET offset == symtab[a[3]] - lc
                        imm_bin == to_binary(offset, 13, TRUE)
                    IN  Ok(Sub(imm_bin, 0, 1) \o Sub(imm_bin, 2, 8) \o REGS(a[2])
                           \o REGS(a[1]) \o funct3 \o Sub(imm_bin, 8, 12)
                           \o Sub(imm_bin, 1, 2) \o opcode)
          [] fmt = "J" ->
               IF a[2] \notin DOMAIN symtab THEN Raise("KeyError")
               ELSE LET offset == symtab[a[2]] - lc
                        imm_bin == to_binary(offset, 21, TRUE)
                    IN  Ok(Sub(imm_bin, 0, 1) \o Sub(imm_bin, 10, 20)
                           \o Sub(imm_bin, 9, 10) \o Sub(imm_bin, 1, 9)
                           \o REGS(a[1]) \o opcode)

\* second_pass, lines 188-231: the four bytes of an instruction line
encode(l, symtab, lc) ==
    LET s == binary_string(l, symtab, lc)
        v == int2(s.v)
        w == pack_I(v)
    IN  IF s.err # "" THEN s
        ELSE IF ~v.ok THEN Raise("ValueError")
        ELSE IF ~w.ok THEN Raise("struct.error")
        ELSE Ok(w.bytes)

\* second_pass, lines 170-232: the expanded lines of one source line, from
\* the location counter and the output so far
RECURSIVE Emit(_, _, _, _)
Emit(expanded_lines, symtab, lc, out) ==
    IF expanded_lines = << >>
    THEN [err |-> "", lc |-> lc,
          out |-> out]
    ELSE
    LET l    == Head(expanded_lines)
        rest == Tail(expanded_lines)
        failed(e) == [err |-> e, lc |-> lc,
                      out |-> out]
    IN  IF l.op \in {".word", ".half", ".byte"}
        THEN LET b == pack_values(l.args, CASE l.op = ".word" -> 4
                                            [] l.op = ".half" -> 2
                                            [] l.op = ".byte" -> 1)
             IN  IF b.err # "" THEN failed(b.err)
                 ELSE Emit(rest, symtab, lc,
                           extend(out, Bytes(b.v)))
        ELSE IF l.op = ".align"
        THEN Emit(rest, symtab, lc,
                  extend(out,
                         bytearray(padding(lc, l.args[1]))))
        ELSE IF IsDirective(l.op)
        THEN Emit(rest, symtab, lc, out)
        ELSE LET w == encode(l, symtab, lc)
             IN  IF w.err # "" THEN failed(w.err)
                 ELSE Emit(rest, symtab, lc + 4,
                           extend(out, Bytes(w.v)))

\* One iteration of the loop of second_pass (lines 159-232) on the line
SecondPassLine(line, symtab, lc, out) ==
    IF line.op = ""
    THEN [err |-> "", lc |-> lc,
          out |-> out]
    ELSE Emit(expand_pseudo_instructions(line), symtab, lc,
              out)

---------------------------------------------------------------------------
(* The source files main is given                                          *)

\* the Python int w1 * 2^16 + w0
Lit(w1, w0) == [hi |-> 0, w1 |-> w1, w0 |-> w0]

\* the literals of li
Literals ==
    { Z(0), Z(5), Z(2047), Z(2048), Z(-1), Z(-2048), Z(-2049), Z(-5000),
      Lit(4660, 22136),       \* 0x12345678
      Lit(4660, 24575),       \* 0x12345FFF
      Lit(65535, 61440),      \* 0xFFFFF000
      Lit(65535, 65535),      \* 0xFFFFFFFF
      Lit(32767, 65535),      \* 0x7FFFFFFF
      Lit(32768, 0),          \* 0x80000000
      Lit(65535, 63488),      \* 0xFFFFF800
      Lit(65535, 63487) }     \* 0xFFFFF7FF

\* programs of branches and labels
BranchSources ==
    { \* beq x0,x0,L ; addi x1,x0,1 ; L: addi x2,x0,2
      << Stmt("", "beq", << 0, 0, "L" >>), Stmt("", "addi", << 1, 0, Imm(1) >>),
         Stmt("L", "addi", << 2, 0, Imm(2) >>) >>,
      \* .word 19 ; beq x0,x0,L ; addi x1,x0,1 ; L: addi x2,x0,2
      \* (the word 19 is addi x0,x0,0)
      << Stmt("", ".word", << 19 >>), Stmt("", "beq", << 0, 0, "L" >>),
         Stmt("", "addi", << 1, 0, Imm(1) >>),
         Stmt("L", "addi", << 2, 0, Imm(2) >>) >>,
      \* jal x0,start ; data: .word -1 7 ; start: li x1,7 ; lw x2,4(x3) ;
      \* beq x1,x2,L ; addi x4,x0,1 ; L: addi x5,x0,2
      << Stmt("", "jal", << 0, "start" >>), Stmt("data", ".word", << -1, 7 >>),
         Stmt("start", "li", << 1, Z(7) >>), Stmt("", "lui", << 3, Imm(1) >>),
         Stmt("", "lw", << 2, Imm(8), 3 >>), Stmt("", "beq", << 1, 2, "L" >>),
         Stmt("", "addi", << 4, 0, Imm(1) >>),
         Stmt("L", "addi", << 5, 0, Imm(2) >>) >>,
      \* L: addi x1,x1,1 ; addi x2,x0,1 ; beq x1,x2,L
      << Stmt("L", "addi", << 1, 1, Imm(1) >>), Stmt("", "addi", << 2, 0, Imm(1) >>),
         Stmt("", "beq", << 1, 2, "L" >>) >>,
      \* addi x1,x0,0 ; L: ; addi x1,x1,1 ; li x2,3 ; bne x1,x2,L
      << Stmt("", "addi", << 1, 0, Imm(0) >>), Stmt("L", "", << >>),
         Stmt("", "addi", << 1, 1, Imm(1) >>), Stmt("", "li", << 2, Z(3) >>),
         Stmt("", "bne", << 1, 2, "L" >>) >>,
      \* L: addi x1,x0,1 ; L: addi x2,x0,2 ; bne x0,x0,L
      << Stmt("L", "addi", << 1, 0, Imm(1) >>), Stmt("L", "addi", << 2, 0, Imm(2) >>),
         Stmt("", "bne", << 0, 0, "L" >>) >>,
      \* L: ; nop ; L: ; beq x0,x0,M ; M: mv x1,x0
      << Stmt("L", "", << >>), Stmt("", "nop", << >>), Stmt("L", "", << >>),
         Stmt("", "beq", << 0, 0, "M" >>), Stmt("M", "mv", << 1, 0 >>) >>,
      \* beq x0,x0,L ; .byte 1 ; L: addi x1,x0,1
      << Stmt("", "beq", << 0, 0, "L" >>), Stmt("", ".byte", << 1 >>),
         Stmt("L", "addi", << 1, 0, Imm(1) >>) >>,
      \* beq x0,x0,L ; .align 13 ; L: addi x1,x0,1
      << Stmt("", "beq", << 0, 0, "L" >>), Stmt("", ".align", << 13 >>),
         Stmt("L", "addi", << 1, 0, Imm(1) >>) >>,
      \* jal x1,L ; .align 21 ; L: addi x1,x0,1
      << Stmt("", "jal", << 1, "L" >>), Stmt("", ".align", << 21 >>),
         Stmt("L", "addi", << 1, 0, Imm(1) >>) >>,
      \* beq x0,x0,M   (M is not defined)
      << Stmt("", "beq", << 0, 0, "M" >>) >>,
      \* addi x1,x0,1 ; beq x0,x0,M   (M is not defined)
      << Stmt("", "addi", << 1, 0, Imm(1) >>), Stmt("", "beq", << 0, 0, "M" >>) >> }

\* programs of data directives and alignment
DataSources ==
    { \* .byte 1 ; .align 2 ; addi x1,x0,1
      << Stmt("", ".byte", << 1 >>), Stmt("", ".align", << 2 >>),
         Stmt("", "addi", << 1, 0, Imm(1) >>) >>,
      \* addi x1,x0,1 ; .align 3 ; .word 7
      << Stmt("", "addi", << 1, 0, Imm(1) >>), Stmt("", ".align", << 3 >>),
         Stmt("", ".word", << 7 >>) >>,
      \* addi x1,x0,1 ; nop ; li x2,5000 ; neg x3,x2 ; not x4,x3 ;
      \* .half 1 2 ; .byte -1 ; .word 7 -7 ; .text
      << Stmt("", "addi", << 1, 0, Imm(1) >>), Stmt("", "nop", << >>),
         Stmt("", "li", << 2, Z(5000) >>), Stmt("", "neg", << 3, 2 >>),
         Stmt("", "not", << 4, 3 >>), Stmt("", ".half", << 1, 2 >>),
         Stmt("", ".byte", << -1 >>), Stmt("", ".word", << 7, -7 >>),
         Stmt("", ".text", << >>) >>,
      \* .half 1 ; .align 2 ; .align 2 ; addi x1,x0,1
      << Stmt("", ".half", << 1 >>), Stmt("", ".align", << 2 >>),
         Stmt("", ".align", << 2 >>), Stmt("", "addi", << 1, 0, Imm(1) >>) >>,
      \* .byte 200
      << Stmt("", ".byte", << 200 >>) >>,
      \* la x6,data ; lw x7,0(x6) ; data: .word -1
      << Stmt("", "la", << 6, "data" >>), Stmt("", "lw", << 7, Imm(0), 6 >>),
         Stmt("data", ".word", << -1 >>) >>,
      \* nop ; la x6,data ; lw x7,0(x6) ; data: .word -1
      << Stmt("", "nop", << >>), Stmt("", "la", << 6, "data" >>),
         Stmt("", "lw", << 7, Imm(0), 6 >>), Stmt("data", ".word", << -1 >>) >>,
      \* data: .word 19 ; la x6,data
      << Stmt("data", ".word", << 19 >>), Stmt("", "la", << 6, "data" >>) >>,
      \* la x6,nowhere
      << Stmt("", "la", << 6, "nowhere" >>) >>,
      \* addi x1,x0,1 ; L: .align      (the directive has no operand)
      << Stmt("", "addi", << 1, 0, Imm(1) >>), Stmt("L", ".align", << >>) >> }

\* instructions whose immediate is at or beyond the end of its field
ImmediateSources ==
    { << Stmt("", op, << 1, 0, Imm(v) >>) >> :
         op \in {"addi", "jalr"},
         v \in {2047, 2048, 4095, 4096, 5000, -2048, -2049, -4608, -5000, -5120} }
    \cup { << Stmt("", op, << 1, Imm(v), 0 >>) >> :
              op \in {"lw", "sw"}, v \in {2047, 2048, 4095, 4096, -2048, -2049, -5000} }
    \cup { << Stmt("", "lui", << 1, Imm(v) >>) >> :
              v \in {0, 1048575, 1048576, -1, -524288} }

\* addi x1,x0,0 ; L: addi x1,x1,1 ; addi x2,x0,3 ; bne x1,x2,L
LoopSource ==
    << Stmt("", "addi", << 1, 0, Imm(0) >>), Stmt("L", "addi", << 1, 1, Imm(1) >>),
       Stmt("", "addi", << 2, 0, Imm(3) >>), Stmt("", "bne", << 1, 2, "L" >>) >>

Sources ==
    BranchSources \cup DataSources \cup ImmediateSources
    \cup { << Stmt("", "li", << 5, imm >>) >> : imm \in Literals }
    \cup { LoopSource }

---------------------------------------------------------------------------
(* The state machine                                                       *)

\* the record of the last call: the operation, what it returned, the pc a
\* step started from, the bytes it fetched, the file a load read, and
\* whether a reset or load found a state other than the reset state
Last(op, ret, pc0, instr, image, dirty) ==
    [op |-> op, ret |-> ret, pc0 |-> pc0, instr |-> instr, image |-> image,
     dirty |-> dirty]

\* ResetState with line 70 (self.registers = [0] * 32) left out
ResetState_KeepsRegisters ==
    [pc |-> Z(LOAD_BASE), registers |-> registers, memory |-> bytearray(mem_size)]

\* reset(): lines 69-71
ResetState ==
    [pc |-> Z(LOAD_BASE), registers |-> ZeroRegisters, memory |-> bytearray(mem_size)]

Dirty == [pc |-> pc, registers |-> registers, memory |-> memory] # ResetState

\* line 63: self.memory[0x1000:0x1000 + len(program_bytes)] = program_bytes
LoadedMemory(mem, program_bytes) ==
    SetSlice(mem, Z(LOAD_BASE), ZAdd(Z(LOAD_BASE), Z(program_bytes.len)),
             program_bytes)

\* __init__
InitSimulator ==
    /\ pc = Z(LOAD_BASE)
    /\ registers = ZeroRegisters
    /\ memory = bytearray(mem_size)
    /\ steps = 0
    /\ last = Last("init", "None", Z(LOAD_BASE), << >>, Image(<< >>), FALSE)

\* main on the source file src: lines 108-109 and 157-158
InitAssembler(src) ==
    /\ lines = src
    /\ phase = IF src = << >> THEN "none" ELSE "first_pass"
    /\ line_num = 1
    /\ symbol_table = << >>
    /\ location_counter = [first_pass |-> LOAD_BASE, second_pass |-> LOAD_BASE]
    /\ output_bytes = bytearray(0)
    /\ output_file = [exists |-> FALSE, bytes |-> bytearray(0)]
    /\ listing = [lc1 |-> << >>, lc2 |-> << >>, at |-> << >>, error |-> ""]

\* SimulatorGUI.__init__, lines 156-158
InitGUI == running = FALSE /\ pending = 0

\* the simulator alone: no source is assembled
Init == InitSimulator /\ InitAssembler(<< >>) /\ InitGUI

\* RISCVSimulator.reset()
Resetting ==
    /\ pc' = ResetState.pc
    /\ registers' = ResetState.registers
    /\ memory' = ResetState.memory
    /\ steps' = 0
    /\ last' = Last("reset", "None", ResetState.pc, << >>, Image(<< >>), Dirty)

reset == Resetting /\ UNCHANGED <<asmvars, guivars>>

\* load_program of a file that exists
Loading(program_bytes) ==
    /\ pc' = ResetState.pc
    /\ registers' = ResetState.registers
    /\ memory' = LoadedMemory(ResetState.memory, program_bytes)
    /\ steps' = 0
    /\ last' = Last("load", "Loaded", ResetState.pc, << >>, program_bytes, Dirty)

load_program(program_bytes) ==
    Loading(program_bytes) /\ UNCHANGED <<asmvars, guivars>>

\* load_program of a file that does not exist: FileNotFoundError is caught
\* after the reset
load_program_missing ==
    /\ pc' = ResetState.pc
    /\ registers' = ResetState.registers
    /\ memory' = ResetState.memory
    /\ steps' = 0
    /\ last' = Last("load", "NotFound", ResetState.pc, << >>, Image(<< >>), Dirty)
    /\ UNCHANGED <<asmvars, guivars>>

\* run_single_step() with the outcome r
Stepping(r) ==
    /\ pc' = r.pc
    /\ registers' = r.registers
    /\ memory' = r.memory
    /\ last' = Last("step", r.ret, pc, r.instr, Image(<< >>), FALSE)
    /\ steps' = steps + 1

run_single_step ==
    /\ steps < MaxSteps
    /\ Stepping(Step(pc, registers, memory))
    /\ UNCHANGED <<asmvars, guivars>>

Next ==
    \/ reset
    \/ \E program_bytes \in Files : load_program(program_bytes)
    \/ load_program_missing
    \/ run_single_step

Spec == Init /\ [][Next]_vars

\* first_pass: one iteration of the loop of lines 128-153; after the last
\* line main goes on to second_pass, and an exception ends main in one of
\* its except clauses (lines 262-265)
first_pass ==
    /\ phase = "first_pass"
    /\ IF FirstPassRaises(lines[line_num])
       THEN /\ phase' = "error"
            /\ listing' = [listing EXCEPT !.error = "IndexError"]
            /\ UNCHANGED <<symbol_table, location_counter, line_num>>
       ELSE /\ LET r == FirstPassLine(lines[line_num], symbol_table,
                                      location_counter.first_pass)
               IN  /\ symbol_table' = r.symtab
                   /\ location_counter' =
                         [location_counter EXCEPT !.first_pass = r.lc]
            /\ listing' = [listing EXCEPT
                              !.lc1 = Append(@, location_counter.first_pass)]
            /\ IF line_num = Len(lines)
               THEN phase' = "second_pass" /\ line_num' = 1
               ELSE phase' = phase /\ line_num' = line_num + 1
    /\ UNCHANGED <<lines, output_bytes, output_file, simvars, guivars>>

\* second_pass: one iteration of the loop of lines 159-232; an exception
\* ends main in one of its except clauses (lines 262-265)
second_pass ==
    /\ phase = "second_pass"
    /\ LET r == SecondPassLine(lines[line_num], symbol_table,
                               location_counter.second_pass, output_bytes)
       IN  IF r.err # ""
           THEN /\ phase' = "error"
                /\ listing' = [listing EXCEPT !.error = r.err]
                /\ UNCHANGED <<line_num, location_counter, output_bytes>>
           ELSE /\ location_counter' =
                      [location_counter EXCEPT !.second_pass = r.lc]
                /\ output_bytes' = r.out
                /\ listing' = [listing EXCEPT
                      !.lc2 = Append(@, location_counter.second_pass),
                      !.at  = Append(@, LOAD_BASE + output_bytes.len)]
                /\ IF line_num = Len(lines)
                   THEN phase' = "assembled" /\ line_num' = line_num
                   ELSE phase' = phase /\ line_num' = line_num + 1
    /\ UNCHANGED <<lines, symbol_table, output_file, simvars, guivars>>

\* write_output done in a finally clause: also after an exception
write_output_AfterError ==
    /\ phase \in {"assembled", "error"}
    /\ phase' = IF phase = "error" THEN "error" ELSE "written"
    /\ output_file' = [exists |-> TRUE, bytes |-> output_bytes]
    /\ UNCHANGED <<lines, line_num, symbol_table, location_counter,
                   output_bytes, listing, simvars, guivars>>

\* main, lines 252-260: the output file is written
write_output ==
    /\ phase = "assembled"
    /\ phase' = "written"
    /\ output_file' = [exists |-> TRUE, bytes |-> output_bytes]
    /\ UNCHANGED <<lines, line_num, symbol_table, location_counter,
                   output_bytes, listing, simvars, guivars>>

\* the simulator is given the file main wrote
load_output == output_file.exists /\ load_program(output_file.bytes)

\* the simulator runs the file main wrote
run_output == last.op # "init" /\ run_single_step

InitAsm ==
    /\ InitSimulator
    /\ InitGUI
    /\ \E src \in Sources : InitAssembler(src)

NextAsm ==
    \/ first_pass
    \/ second_pass
    \/ write_output
    \/ load_output
    \/ run_output

AsmSpec == InitAsm /\ [][NextAsm]_vars

\* the simulator is given the file main wrote, once
load_output_once == last.op = "init" /\ load_output

\* main assembles the source and writes the file; the simulator loads it
\* and the run loop of the GUI steps it (run_loop re-arms itself after
\* every step, lines 270-273): every enabled step is eventually taken
NextRun ==
    \/ first_pass
    \/ second_pass
    \/ write_output
    \/ load_output_once
    \/ run_output

\* ENABLED <<second_pass>>_vars and ENABLED <<run_output>>_vars: both
\* actions are total under their guards and change phase, line_num or steps
second_pass_enabled == phase = "second_pass"
run_output_enabled == last.op # "init" /\ steps < MaxSteps

\* weak fairness of every action; for second_pass and run_output
\* WF_vars(A) is written out as []<>~ENABLED <<A>>_vars \/ []<><<A>>_vars
\* with the enabling condition above
RunSpec ==
    /\ InitAsm
    /\ [][NextRun]_vars
    /\ WF_vars(first_pass)
    /\ WF_vars(write_output)
    /\ WF_vars(load_output_once)
    /\ ([]<>(~second_pass_enabled) \/ []<><<second_pass>>_vars)
    /\ ([]<>(~run_output_enabled) \/ []<><<run_output>>_vars)

\* The files the GUI is given: the counting loop, a program that ends in
\* an undefined word and one whose second instruction raises
GuiFiles ==
    { Image(<< Asm("addi", 1, 0, 0), Asm("addi", 1, 1, 1), Asm("addi", 2, 0, 3),
               Asm("bne", 1, 2, -8) >>),
      Image(<< Asm("addi", 1, 0, 5), <<255, 255, 255, 255>> >>),
      Image(<< Asm("addi", 2, 0, -1), Asm("blt", 0, 2, 8) >>) }

\* SimulatorGUI.load_file: running is left as it is
load_file(program_bytes) ==
    /\ Loading(program_bytes)
    /\ UNCHANGED <<asmvars, guivars>>

\* SimulatorGUI.step with the outcome r of run_single_step: a Halt clears
\* running; an exception leaves the callback before anything else is done
StepGUI(r) ==
    /\ Stepping(r)
    /\ running' = IF r.ret = "Halt" THEN FALSE ELSE running

\* the Step button
step ==
    /\ steps < MaxSteps
    /\ StepGUI(Step(pc, registers, memory))
    /\ UNCHANGED <<asmvars, pending>>

\* the body of run_loop when running is set, with n callbacks scheduled
\* beside this call: self.step(), then master.after(run_speed, run_loop),
\* which is reached whatever step did to running, unless step raised
RunLoopBody(r, n) ==
    /\ Stepping(r)
    /\ running' = (r.ret # "Halt")
    /\ pending' = IF r.ret = "Raise" THEN n ELSE n + 1

\* the Run / Pause button
run_toggle ==
    /\ IF running
       THEN /\ running' = FALSE
            /\ UNCHANGED <<simvars, pending>>
       ELSE /\ steps < MaxSteps
            /\ pending < MaxPending
            /\ RunLoopBody(Step(pc, registers, memory), pending)
    /\ UNCHANGED asmvars

\* Tk calls a scheduled run_loop
run_loop ==
    /\ pending > 0
    /\ IF running
       THEN /\ steps < MaxSteps
            /\ RunLoopBody(Step(pc, registers, memory), pending - 1)
       ELSE /\ pending' = pending - 1
            /\ UNCHANGED <<simvars, running>>
    /\ UNCHANGED asmvars

\* SimulatorGUI.reset: the scheduled callbacks are not cancelled
gui_reset ==
    /\ Resetting
    /\ running' = FALSE
    /\ UNCHANGED <<asmvars, pending>>

NextGUI ==
    \/ \E program_bytes \in GuiFiles : load_file(program_bytes)
    \/ run_toggle
    \/ run_loop
    \/ step
    \/ gui_reset

GuiSpec == Init /\ [][NextGUI]_vars

\* The operands of the instructions second_pass is given alone, each with
\* the symbol table it is handed: register triples, the 12-bit literals,
\* the branch and jump targets (0x1000 + offset for every offset below) and
\* the 20-bit literals
CodecRegs == {<<1, 2, 3>>, <<31, 0, 15>>, <<0, 31, 16>>, <<10, 21, 4>>}
CodecImm12 == {-2048, -1, 0, 1, 1365, 2047}
CodecImm20 == {0, 1, 349525, 524287, 524288, 1048575}
CodecOffsetsB == {-4096, -2730, -2, 0, 2, 4094}
CodecOffsetsJ == {-4096, -2, 0, 2, 699050, 1048574}

OpsOf(fmt) == {op \in DOMAIN OPCODES : OPCODES[op][4] = fmt}

\* one-line sources, one instruction of every mnemonic and format
CodecSources ==
    {[src |-> <<Stmt("", op, r)>>, symtab |-> << >>] :
        op \in OpsOf("R"), r \in CodecRegs}
    \cup {[src |-> <<Stmt("", op, <<r[1], r[2], Imm(i)>>)>>, symtab |-> << >>] :
        op \in OpsOf("I"), r \in CodecRegs, i \in CodecImm12}
    \cup {[src |-> <<Stmt("", op, <<r[1], Imm(i), r[2]>>)>>, symtab |-> << >>] :
        op \in OpsOf("I-load") \cup OpsOf("S"), r \in CodecRegs, i \in CodecImm12}
    \cup {[src |-> <<Stmt("", op, <<r[1], Imm(i)>>)>>, symtab |-> << >>] :
        op \in OpsOf("U"), r \in CodecRegs, i \in CodecImm20}
    \cup {[src |-> <<Stmt("", op, <<r[1], r[2], "L">>)>>,
           symtab |-> ("L" :> LOAD_BASE + o)] :
        op \in OpsOf("B"), r \in CodecRegs, o \in CodecOffsetsB}
    \cup {[src |-> <<Stmt("", op, <<r[1], "L">>)>>,
           symtab |-> ("L" :> LOAD_BASE + o)] :
        op \in OpsOf("J"), r \in CodecRegs, o \in CodecOffsetsJ}

\* second_pass(lines, symbol_table) called on a one-line source with the
\* symbol table it is handed (lines 157-158)
InitCodec ==
    /\ InitSimulator
    /\ InitGUI
    /\ \E c \in CodecSources :
          /\ lines = c.src
          /\ symbol_table = c.symtab
    /\ phase = "second_pass"
    /\ line_num = 1
    /\ location_counter = [first_pass |-> LOAD_BASE + 4, second_pass |-> LOAD_BASE]
    /\ output_bytes = bytearray(0)
    /\ output_file = [exists |-> FALSE, bytes |-> bytearray(0)]
    /\ listing = [lc1 |-> <<LOAD_BASE>>, lc2 |-> << >>, at |-> << >>, error |-> ""]

\* the word is encoded, written, loaded and decoded by the first step
NextCodec ==
    \/ second_pass
    \/ write_output
    \/ load_output
    \/ run_output

CodecSpec == InitCodec /\ [][NextCodec]_vars

---------------------------------------------------------------------------
(* The claims                                                              *)

\* the last transition was a call of run_single_step that returned ret
Stepped(ret) == last.op = "step" /\ last.ret = ret

\* this transition is a call of run_single_step
IsStep == last'.op = "step" /\ steps' = steps + 1

\* C1: after every call of run_single_step, whatever it returns and
\* whatever the instruction's rd, registers[0] equals 0.
C1_X0IsZero == registers[0] = Z(0)

\* C1 witness: a step has executed jal with rd = x0 and returned Continue.
C1_Witness ==
    /\ Stepped("Continue")
    /\ Instruction(last.instr).opcode = 111
    /\ Instruction(last.instr).rd = 0

\* C2: run_single_step ends with Continue or with Halt, never with a
\* runtime exception.
C2_NoRuntimeException == last.op = "step" => last.ret \in {"Continue", "Halt"}

\* C3: every one of the 32 registers holds a value in 0..2^32-1.
C3_RegistersAreWords == \A i \in RegIndex : IsU32(registers[i])

\* the pc the claim C4 gives a step that executes instr at p with the
\* registers rg: the target of a taken branch, of jal and of jalr (from the
\* rs1 the instruction found), and else p + 4
ClaimedNextPc(instr, rg, p) ==
    CASE instr.opcode = 99 /\ condition_met(instr, rg) -> ZAdd(p, Z(instr.imm_B))
      [] instr.opcode = 111 -> ZAdd(p, Z(instr.imm_J))
      [] instr.opcode = 103 -> ClearBit0(ZAdd(rg[instr.rs1], Z(instr.imm_I)))
      [] OTHER -> ZAdd(p, Z(4))

\* C4: for every step that returns Continue the new pc is the old pc + 4
\* or, for a taken branch, jal and jalr, the target pc + imm_B, pc + imm_J,
\* (rs1 + imm_I) & ~1; a not-taken branch and every other instruction
\* give pc + 4.
C4_NextPc ==
    [][(IsStep /\ last'.ret = "Continue")
         => pc' = ClaimedNextPc(Instruction(last'.instr), registers, pc)]_vars

\* C5 as claimed: in every reachable state pc is a multiple of 4.
C5_PcMultipleOf4 == pc.w0 % 4 = 0

\* C5 as amended: in every reachable state pc is a multiple of 2.
C5_PcIsEven == pc.w0 % 2 = 0

\* C5 witness: a jalr has returned Continue and left a pc that is even
\* and no multiple of 4.
C5_Witness ==
    /\ Stepped("Continue")
    /\ Instruction(last.instr).opcode = 103
    /\ pc.w0 % 4 = 2

\* p does not designate 4 bytes of a memory of mem_size bytes
PcOutOfBounds(p) == ZLess(p, Z(0)) \/ ZLess(Z(mem_size - 4), p)

\* C6: a step from a pc that does not designate 4 bytes inside memory
\* (pc < 0, pc >= mem_size, fewer than 4 bytes left) returns Halt.
C6_OutOfBoundsHalts ==
    (last.op = "step" /\ PcOutOfBounds(last.pc0)) => last.ret = "Halt"

\* the four bytes at p are the zero word or a word with an opcode
\* run_single_step does not list
IllegalWordAt(p, mem) ==
    LET b == GetSlice(mem, p, ZAdd(p, Z(4)))
    IN  /\ Len(b) = 4
        /\ \/ b = <<0, 0, 0, 0>>
           \/ b[1] % 128 \notin {51, 19, 3, 35, 99, 55, 23, 111, 103}

\* C7: when the word at pc is 0 or has an unlisted opcode, the step
\* returns Halt and leaves pc, the registers and the memory as they were.
C7_IllegalWordHalts ==
    [][(IsStep /\ IllegalWordAt(pc, memory))
         => /\ last'.ret = "Halt"
            /\ pc' = pc
            /\ registers' = registers
            /\ memory' = memory]_vars

\* C7 witness: a step has fetched a non-zero word with an unlisted opcode,
\* after a register and a memory byte had been written, and returned Halt.
C7_Witness ==
    /\ Stepped("Halt")
    /\ Len(last.instr) = 4
    /\ last.instr # <<0, 0, 0, 0>>
    /\ last.instr[1] % 128 \notin {51, 19, 3, 35, 99, 55, 23, 111, 103}
    /\ registers[1] # Z(0)
    /\ ByteAt(memory, 0) # 0

\* C8: after any sequence of loads, steps and resets the memory has
\* mem_size bytes.
C8_MemoryLength == memory.len = mem_size

\* C9: loading a file longer than mem_size - 0x1000 bytes yields an error
\* and stores nothing, and no load leaves bytes past mem_size.
C9_LoadTooLarge ==
    last.op = "load" =>
        /\ memory.len <= mem_size
        /\ last.image.len > mem_size - LOAD_BASE
             => last.ret = "LoadTooLarge" /\ memory = bytearray(mem_size)

\* C10: reset() yields pc = 0x1000, 32 zero registers and mem_size zero
\* bytes; load_program yields pc = 0x1000, 32 zero registers and a memory
\* that is zero except that byte 0x1000 + i is byte i of the file, for
\* every i below the file's length, whatever the state was before.
C10_ResetAndLoad ==
    /\ last.op \in {"reset", "load"} =>
         /\ pc = Z(4096)
         /\ \A i \in 0..31 : registers[i] = [hi |-> 0, w1 |-> 0, w0 |-> 0]
    /\ last.op = "reset" => memory.len = 65536 /\ DOMAIN memory.data = {}
    /\ last.op = "load" =>
         /\ memory.len >= 65536
         /\ last.image.len <= 65536 - 4096 => memory.len = 65536
         /\ \A i \in DOMAIN memory.data \cup {4096 + j : j \in DOMAIN last.image.data} :
              ByteAt(memory, i) = IF i >= 4096 /\ i < 4096 + last.image.len
                                  THEN ByteAt(last.image, i - 4096)
                                  ELSE 0

\* C10 witness: a non-empty file has been loaded over a state that
\* differed from the reset state.
C10_Witness ==
    /\ last.op = "load"
    /\ last.ret = "Loaded"
    /\ last.dirty
    /\ last.image.len > 0

---------------------------------------------------------------------------
(* Claims about the stored values and the assembler                        *)

\* the instruction this call of run_single_step fetched and decoded
FetchedInstr == Instruction(last'.instr)

\* this transition is a call of run_single_step that fetched an instruction
\* of this opcode and funct3
Executes(opcode, funct3) ==
    /\ IsStep
    /\ Len(last'.instr) = 4
    /\ FetchedInstr.opcode = opcode
    /\ FetchedInstr.funct3 = funct3

\* the address rs1 + off of the fetched sw is in range
StoreInRange ==
    LET address == ZAdd(registers[FetchedInstr.rs1], Z(FetchedInstr.imm_S))
    IN  IsU32(address) /\ Sat(address) <= mem_size - 4

\* what lw rd, off(rs1), with rs1 and off those of the fetched sw, leaves in
\* rd when it is executed next
LoadedBack(rd) ==
    ExecLOAD([FetchedInstr EXCEPT !.opcode = 3, !.rd = rd,
                                  !.imm_I = FetchedInstr.imm_S],
             registers', memory', pc')

\* C11: whenever run_single_step executes sw rs2, off(rs1) with reg[rs2] a
\* 32-bit value (0..2^32-1) and rs1 + off an address in 0..mem_size-4, the
\* step succeeds and lw rd, off(rs1) executed next leaves in rd (any
\* register but x0) the value reg[rs2] had at the store.
C11_StoreThenLoad ==
    [][(Executes(35, 2) /\ IsU32(registers[FetchedInstr.rs2]) /\ StoreInRange)
       => /\ last'.ret = "Continue"
          /\ \A rd \in RegIndex \ {0} :
                /\ ~LoadedBack(rd).raised
                /\ LoadedBack(rd).registers[rd] = registers[FetchedInstr.rs2]]_vars

\* the fetched instruction is div (funct3 = 4) or rem (funct3 = 6) whose
\* divisor register holds 0 and whose dividend register a 32-bit value
DividesByZero(funct3) ==
    /\ Executes(51, funct3)
    /\ FetchedInstr.funct7 = 1
    /\ FetchedInstr.rd # 0
    /\ registers[FetchedInstr.rs2] = Z(0)
    /\ IsU32(registers[FetchedInstr.rs1])

\* C20: whenever run_single_step executes div rd, rs1, rs2 with reg[rs2] = 0
\* and reg[rs1] a 32-bit value, it returns Continue and leaves
\* reg[rd] = 0xFFFFFFFF; for rem rd, rs1, rs2 it returns Continue and leaves
\* reg[rd] equal to the value reg[rs1] had.
C20_DivRemByZero ==
    [][/\ DividesByZero(4) =>
            /\ last'.ret = "Continue"
            /\ registers'[FetchedInstr.rd] = Lit(65535, 65535)
       /\ DividesByZero(6) =>
            /\ last'.ret = "Continue"
            /\ registers'[FetchedInstr.rd] = registers[FetchedInstr.rs1]]_vars

\* the lines second_pass has encoded without an exception
Encoded == 1..Len(listing.lc2)

\* the format of the mnemonic op ("" for a directive, a pseudo-instruction
\* or an unknown mnemonic)
Format(op) == IF op \in DOMAIN OPCODES THEN OPCODES[op][4] ELSE ""

\* this transition is a call of run_single_step, on the file main wrote,
\* that starts at the address where the bytes of line i were emitted, plus
\* offset
ExecutesLine(i, offset) ==
    /\ IsStep
    /\ output_file.exists
    /\ last'.pc0 = Z(listing.at[i] + offset)

\* C12: whenever the simulator executes the word emitted for a source line
\* beq rs1, rs2, L of a program that assembled without error, with
\* reg[rs1] = reg[rs2], the step succeeds and the PC after it is the address
\* the symbol table gives to L.
C12_BeqReachesLabel ==
    [][\A i \in Encoded :
          (/\ lines[i].op = "beq"
           /\ ExecutesLine(i, 0)
           /\ registers[lines[i].args[1]] = registers[lines[i].args[2]])
          => /\ last'.ret = "Continue"
             /\ pc' = Z(symbol_table[lines[i].args[3]])]_vars

\* C13: once second_pass has returned, the location counter first_pass
\* reached at the end of the input, minus 0x1000, is the number of bytes
\* second_pass emitted.
C13_PassesAgreeOnSize ==
    phase \in {"assembled", "written"}
    => location_counter.first_pass - LOAD_BASE = output_bytes.len

\* C14: at every line second_pass has encoded, the location counter it held
\* is the one first_pass held at that line, and is 0x1000 plus the number of
\* bytes emitted for the preceding lines (the address at which the line is
\* emitted).
C14_PassesAgreeOnLocation ==
    \A i \in Encoded :
        /\ listing.lc2[i] = listing.lc1[i]
        /\ listing.lc2[i] = listing.at[i]

\* first_pass has met two lines that define the same label
DuplicateLabelMet ==
    \E i, j \in 1..Len(listing.lc1) :
        i < j /\ lines[i].label # "" /\ lines[i].label = lines[j].label

\* C15: once first_pass has met the second definition of a label, assembly
\* has ended with an error: main is in neither pass and writes no file.
C15_DuplicateLabelIsError ==
    DuplicateLabelMet => phase = "error"

\* the immediate of the instruction of line i, encoded at location counter
\* lc: the literal or modifier value of an I, I-load, S or U instruction,
\* target - pc of a B or J instruction (0 when the line has none)
ImmediateOf(i, lc) ==
    LET a == lines[i].args
        f == Format(lines[i].op)
    IN  CASE f = "I" -> parse_immediate(a[3], symbol_table).v
          [] f \in {"I-load", "S", "U"} -> parse_immediate(a[2], symbol_table).v
          [] f = "B" -> symbol_table[a[3]] - lc
          [] f = "J" -> symbol_table[a[2]] - lc
          [] OTHER -> 0

\* the immediate v fits the field of format f
FitsField(f, v) ==
    CASE f \in {"I", "I-load", "S"} -> v >= -2048 /\ v <= 2047
      [] f = "U" -> v >= 0 /\ v <= 2^20 - 1
      [] f = "B" -> v >= -4096 /\ v <= 4095
      [] f = "J" -> v >= -(2^20) /\ v <= 2^20 - 1
      [] OTHER -> TRUE

\* C16: second_pass never encodes (emits a word for) an instruction whose
\* immediate does not fit its field: I, I-load and S immediates outside
\* [-2048, 2047], a U immediate outside 0..2^20-1, a branch offset outside
\* 13 signed bits, a jal offset outside 21 signed bits end it with an error.
C16_ImmediateOutOfRangeIsError ==
    \A i \in Encoded :
        FitsField(Format(lines[i].op), ImmediateOf(i, listing.lc2[i]))

\* C17: second_pass never emits a word for a branch whose offset
\* target - pc is odd: it ends with an error.
C17_OddBranchOffsetIsError ==
    \A i \in Encoded :
        Format(lines[i].op) = "B" => ImmediateOf(i, listing.lc2[i]) % 2 = 0

\* the 32-bit word of the Python int v: v % 2^32
Word32(v) == [hi |-> 0, w1 |-> v.w1, w0 |-> v.w0]

\* the source is the one line li rd, imm with rd other than x0
IsLi == Len(lines) = 1 /\ lines[1].op = "li" /\ lines[1].args[1] # 0

\* the number of instructions li rd, imm is to emit
LiCount == IF FitsAddi(lines[1].args[2]) THEN 1 ELSE 2

\* C18: li rd, imm assembles to one instruction when imm is in
\* [-2048, 2047] and to two otherwise, and once the simulator has executed
\* them from the loaded state reg[rd] is imm as a 32-bit word.
C18_LiLoadsLiteral ==
    IsLi =>
      /\ phase \in {"assembled", "written"} => output_bytes.len = 4 * LiCount
      /\ (last.op = "step" /\ steps = LiCount)
         => /\ last.ret = "Continue"
            /\ registers[lines[1].args[1]] = Word32(lines[1].args[2])

\* C19: whenever the simulator has executed the two instructions emitted
\* for a line la rd, label (the step is the one of the second, the addi),
\* reg[rd] is the address of label.
C19_LaLoadsAddress ==
    [][\A i \in Encoded :
          (lines[i].op = "la" /\ lines[i].args[1] # 0 /\ ExecutesLine(i, 4))
          => /\ last'.ret = "Continue"
             /\ registers'[lines[i].args[1]] =
                   Z(symbol_table[lines[i].args[2]])]_vars


(***************************************************************************)
(* Claims C21..C30                                                         *)
(***************************************************************************)

\* rs1 XOR imm as a 32-bit word, for the fetched OP-IMM instruction
XoriResult ==
    Word32(ZXor(get_signed_reg(registers, FetchedInstr.rs1),
                FetchedInstr.imm_I))

\* C21: whenever run_single_step executes an OP-IMM word (opcode 0x13)
\* with funct3 = 100, rs1 holding a 32-bit value and rd other than x0,
\* the step succeeds and leaves reg[rs1] XOR imm_I in rd as a 32-bit
\* word: the word is executed as xori and not as addi.
C21_XoriExecutesAsXor ==
    [][(Executes(19, 4) /\ FetchedInstr.rd # 0
                        /\ IsU32(registers[FetchedInstr.rs1]))
       => /\ last'.ret = "Continue"
          /\ Word32(registers'[FetchedInstr.rd]) = XoriResult]_vars


\* the simulator has decoded the word emitted for the one-line source: its
\* first step on the file main wrote fetched it at 0x1000
DecodedLine ==
    /\ Len(lines) = 1
    /\ Format(lines[1].op) # ""
    /\ output_file.exists
    /\ last.op = "step"
    /\ last.pc0 = Z(LOAD_BASE)
    /\ Len(last.instr) = 4

\* the operands of the line are in range: its immediate fits the field of
\* its format, and a branch or jump offset is even
OperandsInRange ==
    LET f == Format(lines[1].op)
        v == ImmediateOf(1, LOAD_BASE)
    IN  FitsField(f, v) /\ (f \in {"B", "J"} => v % 2 = 0)

\* the fields the decoder is to give back for the line
FieldsRoundTrip(d) ==
    LET a == lines[1].args
        f == Format(lines[1].op)
        v == ImmediateOf(1, LOAD_BASE)
        o == OPCODES[lines[1].op]
    IN  /\ d.opcode = o[1]
        /\ f # "U" /\ f # "J" => d.funct3 = o[2]
        /\ f = "R" => d.funct7 = o[3] /\ d.rd = a[1] /\ d.rs1 = a[2] /\ d.rs2 = a[3]
        /\ f = "I" => d.rd = a[1] /\ d.rs1 = a[2] /\ d.imm_I = v
        /\ f = "I-load" => d.rd = a[1] /\ d.rs1 = a[3] /\ d.imm_I = v
        /\ f = "S" => d.rs2 = a[1] /\ d.rs1 = a[3] /\ d.imm_S = v
        /\ f = "B" => d.rs1 = a[1] /\ d.rs2 = a[2] /\ d.imm_B = v
        /\ f = "U" => d.rd = a[1]
        /\ f = "J" => d.rd = a[1] /\ d.imm_J = v

\* C22: for every R, I, I-load, S, B, U and J instruction with in-range
\* operands, decoding the word the assembler emits gives back the opcode,
\* funct3, funct7 and register indices of the line and its immediate:
\* imm_I / imm_S the signed 12-bit literal, imm_B / imm_J target - pc, and
\* imm_U the 20-bit literal shifted left by 12.
C22_EncodeDecodeRoundTrip ==
    (DecodedLine /\ OperandsInRange)
    => /\ FieldsRoundTrip(Instruction(last.instr))
       /\ Format(lines[1].op) = "U"
          => Instruction(last.instr).imm_U = ZShl(Z(ImmediateOf(1, LOAD_BASE)), 12)


\* the address rs1 + off of the fetched sh is in range
HalfStoreInRange ==
    LET address == ZAdd(registers[FetchedInstr.rs1], Z(FetchedInstr.imm_S))
    IN  IsU32(address) /\ Sat(address) <= mem_size - 2

\* memory with the low 16 bits of reg[rs2] at rs1 + off, low byte first
HalfStored ==
    LET address == ZAdd(registers[FetchedInstr.rs1], Z(FetchedInstr.imm_S))
        v       == registers[FetchedInstr.rs2]
    IN  [len  |-> memory.len,
         data |-> [i \in {k \in (DOMAIN memory.data) \cup {Sat(address), Sat(address) + 1} :
                            (IF k = Sat(address) THEN v.w0 % 256
                             ELSE IF k = Sat(address) + 1 THEN v.w0 \div 256
                             ELSE memory.data[k]) # 0} |->
                     IF i = Sat(address) THEN v.w0 % 256
                     ELSE IF i = Sat(address) + 1 THEN v.w0 \div 256
                     ELSE memory.data[i]]]

\* C23: whenever run_single_step executes sh rs2, off(rs1) with reg[rs2] a
\* 32-bit value (0..2^32-1) and rs1 + off an address in 0..mem_size-2, the
\* step succeeds, memory[addr] and memory[addr+1] hold the low 16 bits of
\* reg[rs2], low byte first, every other byte of memory is unchanged and
\* so is every register.
C23_ShStoresLowHalf ==
    [][(Executes(35, 1) /\ IsU32(registers[FetchedInstr.rs2]) /\ HalfStoreInRange)
       => /\ last'.ret = "Continue"
          /\ memory' = HalfStored
          /\ registers' = registers]_vars


\* the register as a 32-bit word read unsigned (a TLC integer is signed 32
\* bits wide, so the word is kept as its two 16-bit halves) and signed
UnsignedLess(x, y) == x.w1 < y.w1 \/ (x.w1 = y.w1 /\ x.w0 < y.w0)
SignedLess(x, y) ==
    LET sx == IF x.w1 >= 32768 THEN x.w1 - H ELSE x.w1
        sy == IF y.w1 >= 32768 THEN y.w1 - H ELSE y.w1
    IN  sx < sy \/ (sx = sy /\ x.w0 < y.w0)

\* the comparison the fetched blt, bge, bltu, bgeu (branch = TRUE) or slt,
\* sltu is to make of the 32-bit words of rs1 and rs2
Compares(branch) ==
    LET x == registers[FetchedInstr.rs1]
        y == registers[FetchedInstr.rs2]
        f == FetchedInstr.funct3
    IN  IF branch
        THEN CASE f = 4 -> SignedLess(x, y)
               [] f = 5 -> ~SignedLess(x, y)
               [] f = 6 -> UnsignedLess(x, y)
               [] f = 7 -> ~UnsignedLess(x, y)
        ELSE IF f = 2 THEN SignedLess(x, y) ELSE UnsignedLess(x, y)

\* C24: whenever run_single_step executes blt, bge, bltu or bgeu, the step
\* succeeds and the branch is taken (pc' = pc + imm_B, else pc + 4)
\* exactly when the comparison of the 32-bit words of rs1 and rs2 holds,
\* signed for blt / bge and unsigned for bltu / bgeu; whenever it executes
\* slt or sltu with rd other than x0, the step succeeds and reg[rd] is 1 or
\* 0 by the signed (slt) or unsigned (sltu) comparison.
C24_SignedAndUnsignedCompare ==
    [][/\ (\E f \in {4, 5, 6, 7} : Executes(99, f))
          => /\ last'.ret = "Continue"
             /\ pc' = ZAdd(pc, Z(IF Compares(TRUE) THEN FetchedInstr.imm_B ELSE 4))
       /\ ((\E f \in {2, 3} : Executes(51, f)) /\ FetchedInstr.funct7 = 0
                                              /\ FetchedInstr.rd # 0)
          => /\ last'.ret = "Continue"
             /\ registers'[FetchedInstr.rd] = Z(IF Compares(FALSE) THEN 1 ELSE 0)]_vars


\* run_single_step has returned Halt on the assembled loop
LoopHalted == lines = LoopSource /\ Stepped("Halt")

\* C25: stepping the program assembled from
\*     addi x1,x0,0 ; L: addi x1,x1,1 ; addi x2,x0,3 ; bne x1,x2,L
\* eventually makes run_single_step return Halt, and whenever it has
\* returned Halt reg[x1] is 3.
C25_LoopTerminates ==
    /\ (lines = LoopSource) ~> LoopHalted
    /\ [](LoopHalted => registers[1] = Z(3))

\* the loop has run its three iterations and the eleventh step halted
C25_Witness ==
    LoopHalted /\ steps = 11 /\ registers[1] = Z(3) /\ registers[2] = Z(3)


\* first_pass and second_pass have gone through every line without an
\* exception
BothPassesComplete ==
    /\ Len(listing.lc1) = Len(lines)
    /\ Len(listing.lc2) = Len(lines)
    /\ listing.error = ""

\* C26: once first_pass or second_pass has ended by an exception the
\* output file does not exist, whatever second_pass had emitted; a file
\* that exists was written after both passes went through every line,
\* and holds the bytes second_pass returned.
C26_NoOutputOnError ==
    /\ phase = "error" => ~output_file.exists
    /\ output_file.exists
       => BothPassesComplete /\ output_file.bytes = output_bytes

\* second_pass has raised after it had emitted bytes, and there is no file
C26_Witness ==
    /\ phase = "error"
    /\ Len(listing.lc1) = Len(lines)
    /\ output_bytes.len > 0
    /\ ~output_file.exists


\* C27: a call of run_single_step that returns Halt leaves pc, the
\* registers and memory as they were, and a call that follows one that
\* returned Halt, with no reset or load_program in between, returns Halt
\* again: Halt is absorbing until reset or load_program.
C27_HaltIsAbsorbing ==
    [][IsStep
       => /\ last'.ret = "Halt"
             => pc' = pc /\ registers' = registers /\ memory' = memory
          /\ Stepped("Halt") => last'.ret = "Halt"]_vars

\* the simulator has halted on the word after addi x1,x0,5 and has been
\* stepped again at least once
C27_Witness ==
    /\ Stepped("Halt")
    /\ steps >= 3
    /\ pc = Z(LOAD_BASE + 4)
    /\ registers[1] = Z(5)
    /\ Len(last.instr) = 4


\* a / b truncated toward zero, for b other than 0
Quotient(a, b) ==
    LET abs(x) == IF x < 0 THEN -x ELSE x
        q == abs(a) \div abs(b)
    IN  IF (a < 0) = (b < 0) THEN q ELSE -q

\* the fetched instruction is div or rem of the 32-bit values a = reg[rs1]
\* and b = reg[rs2] read as signed, with b other than 0 and a / b not
\* overflowing
DividesSigned(funct3) ==
    /\ Executes(51, funct3)
    /\ FetchedInstr.funct7 = 1
    /\ FetchedInstr.rd # 0
    /\ IsU32(registers[FetchedInstr.rs1])
    /\ IsU32(registers[FetchedInstr.rs2])
    /\ get_signed_reg(registers, FetchedInstr.rs2) # 0
    /\ ~(/\ registers[FetchedInstr.rs1] = Lit(32768, 0)
         /\ get_signed_reg(registers, FetchedInstr.rs2) = -1)

\* C28: whenever run_single_step executes div or rem on signed 32-bit
\* a = reg[rs1] and b = reg[rs2] with b other than 0, the step succeeds;
\* div leaves q = a / b truncated toward zero and rem leaves
\* r = a - b * q (so that a = b * q + r and r has the sign of a), as
\* 32-bit words.
C28_DivRemIdentity ==
    [][LET a == get_signed_reg(registers, FetchedInstr.rs1)
           b == get_signed_reg(registers, FetchedInstr.rs2)
       IN  /\ DividesSigned(4)
              => /\ last'.ret = "Continue"
                 /\ Word32(registers'[FetchedInstr.rd]) = Word32(Z(Quotient(a, b)))
           /\ DividesSigned(6)
              => /\ last'.ret = "Continue"
                 /\ Word32(registers'[FetchedInstr.rd])
                       = Word32(Z(a - b * Quotient(a, b)))]_vars


\* C29: whenever run_single_step executes jalr rd, imm(rs1), also with
\* rd = rs1, the step succeeds, the PC after it is
\* (reg[rs1] + imm_I) & ~1 for the value rs1 held before the instruction,
\* and rd (other than x0) holds the old pc + 4.
C29_JalrReadsRs1First ==
    [][Executes(103, 0)
       => /\ last'.ret = "Continue"
          /\ pc' = JalrTarget(registers[FetchedInstr.rs1], FetchedInstr.imm_I)
          /\ FetchedInstr.rd # 0
             => registers'[FetchedInstr.rd] = ZAdd(pc, Z(4))]_vars


\* C30: in SimulatorGUI, for every interleaving of run_toggle, Step, Reset
\* and timer expiries, at most one run_loop callback is scheduled at any
\* time.
C30_OneRunLoopPending == pending <= 1

============================================================================
